---- MODULE Spec2Model ----
(***************************************************************************)
(* pymcpevals: the trajectory execution and grading engine of              *)
(* src/src/pymcpevals/core.py as a state machine.                          *)
(*                                                                         *)
(* Texts are sequences of fragments (strings): an f-string is the          *)
(* concatenation of its parts, the empty text is <<>>, and "contains" is   *)
(* fragment membership.  average_score and thresholds are kept in fifths   *)
(* (x5), so that the mean of five integer scores is an integer.            *)
(***************************************************************************)
EXTENDS Integers, Sequences, FiniteSets, TLC

(* ------------------------------ bounds -------------------------------- *)

\* Declared turns of a trajectory case.
MaxTurns == 2

\* Tool calls the agent may request in one evaluation.
MaxInvocations == 2

(* ----------------------- texts of the program -------------------------- *)

SystemPrompt == <<"You are an assistant with access to MCP tools">>

ErrTurnPrefix == <<"LLM API error during turn: ">>

ErrFinalPrefix == <<"LLM API error in final response: ">>

ErrTrajectoryPrefix == <<"Error during trajectory execution: ">>

ErrToolPrefix == <<"Error calling tool: ">>

FailedToParsePrefix == <<"Failed to parse evaluation response: ">>

\* A grader whose general handler reuses the text of the parse handler.
EvaluationFailedPrefixOfParse == <<"Failed to parse evaluation response: ">>

EvaluationFailedPrefix == <<"Evaluation failed: ">>

ConnectionFailedPrefix == <<"Server connection/evaluation failed: ">>

ConnectionFailedTrajectoryPrefix == <<"Server connection/trajectory evaluation failed: ">>

\* str(e) of the exceptions the collaborators raise.
LlmError == <<"rate limit exceeded">>

ToolError == <<"tool execution failed">>

ListToolsError == <<"list_tools failed">>

ConnectError == <<"Could not connect">>

TransportError == <<"Could not infer a valid transport">>

\* What Client(server_source) or entering the session can raise.
ConnectErrors == {ConnectError, TransportError}

JsonError == <<"Expecting value">>

KeyErrorText == <<"KeyError">>

ValidationErrorText == <<"validation error for EvaluationResult">>

Contains(text, fragment) == \E i \in 1..Len(text) : text[i] = fragment

(* ------------------------------- JSON ---------------------------------- *)

\* A text handed to json.loads is a sequence of lines; a line is a JSON
\* document ([kind |-> "json", value |-> v]), a fence or free text.
JsonLine(v) == [kind |-> "json", value |-> v]

FenceOpen == [kind |-> "fence_json"]

FenceClose == [kind |-> "fence"]

Junk == [kind |-> "text"]

\* json.loads: decodes exactly one JSON document, else JSONDecodeError.
json_loads(lines) ==
    IF Len(lines) = 1 /\ lines[1].kind = "json"
    THEN [ok |-> TRUE, value |-> lines[1].value]
    ELSE [ok |-> FALSE]

(* ------------------------------ the case ------------------------------- *)

ToolNames == {"tool_a", "wrong_tool"}

\* What list_tools of the server may advertise.
AdvertisedSets == {{"tool_a"}}

\* Content of the i-th declared turn.
TurnContent(i) == <<<<"q1">>, <<"q2">>, <<"q3">>, <<"q4">>>>[i]

ExpectedChoices == {<<>>, <<"tool_a">>}

DefaultThreshold == 3

\* Thresholds of the cases: the default and one above it.
Thresholds == {DefaultThreshold, DefaultThreshold + 1}

ConversationTurn(role, content, expected) ==
    [role |-> role, content |-> content, expected_tools |-> expected]

TurnChoices ==
    {ConversationTurn("user", <<>>, e) : e \in ExpectedChoices}
    \cup {ConversationTurn(r, <<>>, <<>>) : r \in {"assistant", "system"}}

\* Turn lists of length 1..MaxTurns, the i-th turn carrying TurnContent(i).
TurnLists ==
    UNION {{[i \in 1..n |-> [f[i] EXCEPT !.content = TurnContent(i)]] :
              f \in [1..n -> TurnChoices]} : n \in 1..MaxTurns}

\* EvaluationCase: exactly one of prompt / turns; a prompt case derives a
\* single user turn, and is_trajectory tells the two apart.
EvaluationCase(prompt, turns, expected, threshold) ==
    [prompt |-> prompt,
     turns |-> IF prompt # <<>>
               THEN <<ConversationTurn("user", prompt, <<>>)>>
               ELSE turns,
     expected_tools |-> expected,
     threshold |-> threshold,
     is_single_prompt |-> (prompt # <<>>),
     is_trajectory |-> (prompt = <<>> /\ turns # <<>>)]

CannotSpecifyBoth == <<"Cannot specify both">>

MustSpecifyEither == <<"Must specify either">>

\* A constructor that takes the prompt when both are given.
construct_case_prompt_first(prompt, turns, expected, threshold) ==
    IF prompt = <<>> /\ turns = <<>>
    THEN [raised |-> MustSpecifyEither]
    ELSE [raised |-> <<>>,
          case |-> EvaluationCase(prompt, turns, expected, threshold)]

\* The validation at construction: prompt and turns are None (<<>>) or given.
construct_case(prompt, turns, expected, threshold) ==
    IF prompt # <<>> /\ turns # <<>>
    THEN [raised |-> CannotSpecifyBoth]
    ELSE IF prompt = <<>> /\ turns = <<>>
    THEN [raised |-> MustSpecifyEither]
    ELSE [raised |-> <<>>,
          case |-> EvaluationCase(prompt, turns, expected, threshold)]

\* The keyword arguments a caller hands the constructor.
CaseArguments ==
    [prompt : {<<>>, TurnContent(1)},
     turns : {<<>>} \cup TurnLists,
     expected_tools : ExpectedChoices,
     threshold : Thresholds]

Cases ==
    {EvaluationCase(TurnContent(1), <<>>, e, th) :
        e \in ExpectedChoices, th \in Thresholds}
    \cup {EvaluationCase(<<>>, ts, <<>>, th) : ts \in TurnLists, th \in Thresholds}

(* --------------------------- collaborators ----------------------------- *)

\* The decoded arguments of a well-formed tool call.
DecodedArgs == [param |-> "value"]

ArgumentTexts == {<<JsonLine(DecodedArgs)>>, <<Junk>>}

CallId(i) == <<"call_1", "call_2", "call_3", "call_4">>[i]

\* A requested tool call: {id, type, function: {name, arguments (JSON string)}}.
ToolCall(i, name, arguments) ==
    [id |-> CallId(i), type |-> "function",
     function |-> [name |-> name, arguments |-> arguments]]

\* The (name, arguments) pairs the agent requests: either tool with
\* well-formed arguments, and the advertised tool with undecodable ones.
RequestedCalls ==
    {c \in ToolNames \X ArgumentTexts :
        c[2] = <<Junk>> => c[1] \in UNION AdvertisedSets}

\* The lists of at most n requested tool calls.
ToolCallLists(n) ==
    UNION {{[i \in 1..k |-> ToolCall(i, f[i][1], f[i][2])] :
              f \in [1..k -> RequestedCalls]} : k \in 0..n}

AgentAnswer == <<"the answer">>

\* What acompletion gives for a user turn: it raises, or returns a message
\* with content (None is <<>>) and tool_calls.  A message that requests
\* tool calls carries no text; at most n calls are requested.
AgentResponses(n) ==
    {[kind |-> "raise"]}
    \cup {[kind |-> "message", content |-> c, tool_calls |-> <<>>] :
            c \in {<<>>, AgentAnswer}}
    \cup {[kind |-> "message", content |-> <<>>, tool_calls |-> tc] :
            tc \in ToolCallLists(n) \ {<<>>}}

\* What the follow-up acompletion gives: it raises, or returns a message,
\* which may request tool calls again; only its content is read.
FinalResponses ==
    {[kind |-> "raise"]}
    \cup {[kind |-> "message", content |-> c, tool_calls |-> <<>>] :
            c \in {<<>>, AgentAnswer}}
    \cup {[kind |-> "message", content |-> AgentAnswer,
            tool_calls |-> <<ToolCall(1, "tool_a", <<JsonLine(DecodedArgs)>>)>>]}

\* Milliseconds a call_tool may take.
ElapsedChoices == {7}

\* What call_tool returns: an object exposing data, or content.
ToolResults == {[data |-> <<"4", "2">>]}

ToolOutcomes ==
    {[kind |-> "ok", result |-> r, elapsed_ms |-> t] :
        r \in ToolResults, t \in ElapsedChoices}
    \cup {[kind |-> "raise", elapsed_ms |-> t] : t \in ElapsedChoices}

(* ----------------------------- ToolInvoker ----------------------------- *)

PreviewLimit == 100

Ellipsis == <<".", ".", ".">>

RECURSIVE JoinLines(_)
JoinLines(items) ==
    IF items = <<>> THEN <<>>
    ELSE IF Len(items) = 1 THEN Head(items)
    ELSE Head(items) \o <<"\n">> \o JoinLines(Tail(items))

\* core.py 58: item.text if hasattr(item, "text") else str(item).
item_text(item) ==
    IF "text" \in DOMAIN item THEN item.text ELSE <<"str(item)">>

\* A formatter that looks at the content field first.
format_result_content_first(tool_result) ==
    IF "content" \in DOMAIN tool_result
    THEN IF tool_result.content.is_list
         THEN JoinLines([i \in 1..Len(tool_result.content.items) |->
                            item_text(tool_result.content.items[i])])
         ELSE tool_result.content.text
    ELSE IF "data" \in DOMAIN tool_result THEN tool_result.data
    ELSE <<"str(tool_result)">>

\* core.py 53-66: data first, else content (a list is joined by newlines).
format_result(tool_result) ==
    IF "data" \in DOMAIN tool_result THEN tool_result.data
    ELSE IF "content" \in DOMAIN tool_result
         THEN IF tool_result.content.is_list
              THEN JoinLines([i \in 1..Len(tool_result.content.items) |->
                                 item_text(tool_result.content.items[i])])
              ELSE tool_result.content.text
         ELSE <<"str(tool_result)">>

\* A preview cut at the limit without the ellipsis.
result_preview_without_ellipsis(result_text) ==
    IF Len(result_text) > PreviewLimit
    THEN SubSeq(result_text, 1, PreviewLimit)
    ELSE result_text

\* core.py 75-79: result_text[:100] + "..." if len(result_text) > 100.
result_preview(result_text) ==
    IF Len(result_text) > PreviewLimit
    THEN SubSeq(result_text, 1, PreviewLimit) \o Ellipsis
    ELSE result_text

Message(role, content) == [role |-> role, content |-> content]

ToolMessage(tool_call, content) ==
    [role |-> "tool", tool_call_id |-> tool_call.id, content |-> content]

\* _execute_tool_call: the name is appended to tools_used and the arguments
\* are decoded before the try block, so a decoding error leaves the function
\* (raised # <<>>) with no record appended and call_tool not invoked.
execute_tool_call(tool_call, outcome, details, used) ==
    LET tool_name == tool_call.function.name
        used1 == Append(used, tool_name)
        tool_args == json_loads(tool_call.function.arguments)
    IN  IF ~tool_args.ok
        THEN [raised |-> JsonError, called |-> FALSE,
              tools_used |-> used1, tool_call_details |-> details]
        ELSE IF outcome.kind = "ok"
        THEN LET result_text == format_result(outcome.result)
             IN  [raised |-> <<>>, called |-> TRUE,
                  tools_used |-> used1,
                  tool_call_details |->
                      Append(details,
                             [tool_name |-> tool_name,
                              arguments |-> tool_args.value,
                              success |-> TRUE,
                              execution_time_ms |-> outcome.elapsed_ms,
                              result_preview |-> result_preview(result_text)]),
                  message |-> ToolMessage(tool_call, result_text)]
        ELSE [raised |-> <<>>, called |-> TRUE,
              tools_used |-> used1,
              tool_call_details |->
                  Append(details,
                         [tool_name |-> tool_name,
                          arguments |-> tool_args.value,
                          success |-> FALSE,
                          execution_time_ms |-> outcome.elapsed_ms,
                          error_message |-> ToolError]),
              message |-> ToolMessage(tool_call, ErrToolPrefix \o ToolError)]

(* ------------------------------- Grader -------------------------------- *)

ScoreKeys == {"accuracy", "completeness", "relevance", "clarity", "reasoning"}

MinScore == 0

MaxScore == 5

\* x as a number of fifths.
Fifths(x) == 5 * x

JudgeComments == <<"brief summary of strengths and weaknesses">>

\* The JSON object a judge answers with.
JudgeObject(s) ==
    [accuracy |-> s[1], completeness |-> s[2], relevance |-> s[3],
     clarity |-> s[4], reasoning |-> s[5], overall_comments |-> JudgeComments]

\* The same object with an average_score of its own (in fifths).
JudgeObjectWithAverage(s, avg) ==
    [accuracy |-> s[1], completeness |-> s[2], relevance |-> s[3],
     clarity |-> s[4], reasoning |-> s[5], overall_comments |-> JudgeComments,
     average_score |-> avg]

\* An object that lacks the reasoning score.
JudgeObjectMissingKey(s) ==
    [accuracy |-> s[1], completeness |-> s[2], relevance |-> s[3],
     clarity |-> s[4], overall_comments |-> JudgeComments]

Uniform(k) == <<k, k, k, k, k>>

JudgeScoreVectors ==
    {Uniform(k) : k \in 1..(MaxScore - 1)} \cup {<<3, 3, 3, 3, 2>>}

JudgeObjects ==
    {JudgeObject(s) : s \in JudgeScoreVectors}
    \cup {JudgeObject(Uniform(MaxScore + 1)),
          JudgeObject(<<MinScore - 1, 3, 3, 3, 3>>),
          JudgeObjectWithAverage(Uniform(2), Fifths(MaxScore)),
          JudgeObjectMissingKey(Uniform(4))}

\* Texts with a fence: scores of 4 inside one, the same followed by more
\* text, a fence around text that is no JSON, a fence after other text, and
\* a JSON object followed by more text.
FencedOutputs ==
    {<<FenceOpen, JsonLine(JudgeObject(Uniform(4))), FenceClose>>,
     <<FenceOpen, JsonLine(JudgeObject(Uniform(4))), FenceClose, Junk>>,
     <<FenceOpen, Junk, FenceClose>>,
     <<Junk, FenceOpen, JsonLine(JudgeObject(Uniform(4))), FenceClose>>,
     <<JsonLine(JudgeObject(Uniform(4))), Junk>>}

\* What the judge acompletion gives: it raises, or returns a text (lines).
JudgeOutputs ==
    {[kind |-> "raise"], [kind |-> "text", lines |-> <<Junk>>]}
    \cup {[kind |-> "text", lines |-> <<JsonLine(o)>>] : o \in JudgeObjects}
    \cup {[kind |-> "text",
            lines |-> <<FenceOpen, JsonLine(JudgeObject(Uniform(MaxScore))), FenceClose>>]}
    \cup {[kind |-> "text", lines |-> l] : l \in FencedOutputs}

\* The judge outputs met when a whole evaluation is run: a raised call, a
\* text that is no JSON, scores that average exactly 3.0 and just below it,
\* scores of 4 and 5, and an object with an average_score of its own.
PipelineJudgeOutputs ==
    {[kind |-> "raise"], [kind |-> "text", lines |-> <<Junk>>]}
    \cup {[kind |-> "text", lines |-> <<JsonLine(o)>>] :
            o \in {JudgeObject(Uniform(DefaultThreshold)),
                   JudgeObject(<<3, 3, 3, 3, 2>>),
                   JudgeObject(<<4, 5, 4, 4, 5>>),
                   JudgeObjectWithAverage(Uniform(2), Fifths(MaxScore))}}

\* core.py 365-372: the lines after a fence_json line, up to the closing fence.
RECURSIVE fence_lines(_, _)
fence_lines(lines, in_json) ==
    IF lines = <<>> THEN <<>>
    ELSE IF Head(lines).kind = "fence_json" THEN fence_lines(Tail(lines), TRUE)
    ELSE IF Head(lines).kind = "fence" /\ in_json THEN <<>>
    ELSE IF in_json THEN <<Head(lines)>> \o fence_lines(Tail(lines), in_json)
    ELSE fence_lines(Tail(lines), in_json)

\* A grader that parses the text of the judge as it came.
strip_fence_absent(result_text) == result_text

\* core.py 360-373: clean up markdown formatting if present.
strip_fence(result_text) ==
    IF result_text # <<>> /\ Head(result_text).kind = "fence_json"
    THEN fence_lines(result_text, FALSE)
    ELSE result_text

\* A grader that trusts an average_score the judge supplies.
average_kept(evaluation) ==
    IF "average_score" \in DOMAIN evaluation
    THEN evaluation.average_score
    ELSE evaluation.accuracy + evaluation.completeness + evaluation.relevance
         + evaluation.clarity + evaluation.reasoning

\* core.py 378-385: sum(scores) / len(scores), in fifths.
average_of(evaluation) ==
    LET scores == <<evaluation.accuracy, evaluation.completeness,
                    evaluation.relevance, evaluation.clarity,
                    evaluation.reasoning>>
        total == scores[1] + scores[2] + scores[3] + scores[4] + scores[5]
    IN  (Fifths(total)) \div Len(scores)

\* evaluation["average_score"] = ...: the key is set, or overwritten.
with_average(evaluation) ==
    [k \in DOMAIN evaluation \cup {"average_score"} |->
        IF k = "average_score" THEN average_of(evaluation) ELSE evaluation[k]]

\* A result type that takes any score.
valid_result_fields_unchecked(evaluation) ==
    "overall_comments" \in DOMAIN evaluation

\* EvaluationResult validation: every score and the average within 0..5,
\* overall_comments present.
valid_result_fields(evaluation) ==
    /\ "overall_comments" \in DOMAIN evaluation
    /\ \A k \in ScoreKeys : evaluation[k] \in MinScore..MaxScore
    /\ evaluation.average_score \in Fifths(MinScore)..Fifths(MaxScore)

\* EvaluationResult: passed, when not given, follows from average_score.
default_passed(average_score) == average_score >= Fifths(DefaultThreshold)

\* EvaluationResult(**fields) with the defaults of the optional fields.
EvaluationResult(evaluation) ==
    [accuracy |-> evaluation.accuracy,
     completeness |-> evaluation.completeness,
     relevance |-> evaluation.relevance,
     clarity |-> evaluation.clarity,
     reasoning |-> evaluation.reasoning,
     average_score |-> evaluation.average_score,
     overall_comments |-> evaluation.overall_comments,
     passed |-> default_passed(evaluation.average_score),
     error |-> <<>>,
     conversation_history |-> <<>>,
     server_response |-> <<>>,
     tools_used |-> <<>>,
     tool_call_details |-> <<>>,
     total_execution_time_ms |-> 0,
     failed_tool_calls |-> 0,
     server_source |-> "unknown"]

\* The lowest-score result of every failure path.
degraded_result(comments) ==
    EvaluationResult([accuracy |-> 1, completeness |-> 1, relevance |-> 1,
                      clarity |-> 1, reasoning |-> 1,
                      average_score |-> Fifths(1),
                      overall_comments |-> comments])

\* A grader with a single except clause for every failure.
parse_evaluation_one_handler(judge) ==
    IF judge.kind = "raise" THEN [kind |-> "error", error |-> LlmError]
    ELSE LET loaded == json_loads(strip_fence(judge.lines))
         IN  IF ~loaded.ok THEN [kind |-> "error", error |-> JsonError]
             ELSE IF ~(ScoreKeys \subseteq DOMAIN loaded.value)
             THEN [kind |-> "error", error |-> KeyErrorText]
             ELSE IF ~valid_result_fields(with_average(loaded.value))
             THEN [kind |-> "error", error |-> ValidationErrorText]
             ELSE [kind |-> "ok", evaluation |-> with_average(loaded.value)]

\* core.py 352-403 / 488-530: the try block up to the construction of the
\* result; which except clause, if any, ends it.
parse_evaluation(judge) ==
    IF judge.kind = "raise" THEN [kind |-> "error", error |-> LlmError]
    ELSE LET loaded == json_loads(strip_fence(judge.lines))
         IN  IF ~loaded.ok THEN [kind |-> "json_error", error |-> JsonError]
             ELSE IF ~(ScoreKeys \subseteq DOMAIN loaded.value)
             THEN [kind |-> "error", error |-> KeyErrorText]
             ELSE IF ~valid_result_fields(with_average(loaded.value))
             THEN [kind |-> "error", error |-> ValidationErrorText]
             ELSE [kind |-> "ok", evaluation |-> with_average(loaded.value)]

\* A verdict that asks for more than the default threshold.
passes_above_default_threshold(average_score) ==
    average_score > Fifths(DefaultThreshold)

\* result.passed = result.average_score >= 3.0
passes_default_threshold(average_score) ==
    average_score >= Fifths(DefaultThreshold)

RECURSIVE total_execution_time(_)
total_execution_time(details) ==
    IF details = <<>> THEN 0
    ELSE Head(details).execution_time_ms + total_execution_time(Tail(details))

failed_tool_calls_of(details) ==
    Cardinality({i \in 1..Len(details) : ~details[i].success})

\* A single-turn grader whose last except clause leaves the error field out.
grade_without_error_field(judge, server_response) ==
    LET parsed == parse_evaluation(judge)
    IN  IF parsed.kind = "ok"
        THEN [EvaluationResult(parsed.evaluation) EXCEPT
                 !.server_response = server_response,
                 !.passed = passes_default_threshold(parsed.evaluation.average_score)]
        ELSE IF parsed.kind = "json_error"
        THEN [degraded_result(FailedToParsePrefix \o parsed.error) EXCEPT
                 !.server_response = server_response]
        ELSE [degraded_result(EvaluationFailedPrefix \o parsed.error) EXCEPT
                 !.server_response = server_response]

\* grade: single-turn grading of (prompt, server_response).
grade(judge, server_response) ==
    LET parsed == parse_evaluation(judge)
    IN  IF parsed.kind = "ok"
        THEN [EvaluationResult(parsed.evaluation) EXCEPT
                 !.server_response = server_response,
                 !.passed = passes_default_threshold(parsed.evaluation.average_score)]
        ELSE IF parsed.kind = "json_error"
        THEN [degraded_result(FailedToParsePrefix \o parsed.error) EXCEPT
                 !.server_response = server_response]
        ELSE [degraded_result(EvaluationFailedPrefix \o parsed.error) EXCEPT
                 !.server_response = server_response,
                 !.error = parsed.error]

\* grade_trajectory: grading of a whole conversation.
grade_trajectory(judge, history, used, details) ==
    LET parsed == parse_evaluation(judge)
    IN  IF parsed.kind = "ok"
        THEN [EvaluationResult(parsed.evaluation) EXCEPT
                 !.conversation_history = history,
                 !.tools_used = used,
                 !.total_execution_time_ms = total_execution_time(details),
                 !.failed_tool_calls = failed_tool_calls_of(details),
                 !.tool_call_details = details,
                 !.passed = passes_default_threshold(parsed.evaluation.average_score)]
        ELSE IF parsed.kind = "json_error"
        THEN [degraded_result(FailedToParsePrefix \o parsed.error) EXCEPT
                 !.conversation_history = history,
                 !.tools_used = used]
        ELSE [degraded_result(EvaluationFailedPrefix \o parsed.error) EXCEPT
                 !.conversation_history = history,
                 !.tools_used = used,
                 !.error = parsed.error]

\* core.py 287-300: user and assistant contents, zipped turn by turn.
RECURSIVE contents_of(_, _)
contents_of(history, role) ==
    IF history = <<>> THEN <<>>
    ELSE IF Head(history).role = role
         THEN <<Head(history).content>> \o contents_of(Tail(history), role)
         ELSE contents_of(Tail(history), role)

conversation_summary(history) ==
    LET user_inputs == contents_of(history, "user")
        assistant_responses == contents_of(history, "assistant")
        n == IF Len(user_inputs) < Len(assistant_responses)
             THEN Len(user_inputs) ELSE Len(assistant_responses)
    IN  [i \in 1..n |-> [user |-> user_inputs[i], assistant |-> assistant_responses[i]]]

\* core.py 302-314: the expected tools of all turns, and the tools used.
RECURSIVE all_expected_tools(_)
all_expected_tools(turns) ==
    IF turns = <<>> THEN <<>>
    ELSE Head(turns).expected_tools \o all_expected_tools(Tail(turns))

expected_tools_check(turns, used) ==
    LET all_expected == all_expected_tools(turns)
    IN  IF all_expected = <<>> THEN [present |-> FALSE]
        ELSE [present |-> TRUE,
              expected |-> {all_expected[i] : i \in 1..Len(all_expected)},
              actual |-> used]

(* ------------------------------- state --------------------------------- *)

VARIABLES
    entry,              \* the function the caller entered
    case,               \* the EvaluationCase (its turns, prompt, threshold)
    advertised,         \* names list_tools of the server returns
    pc,                 \* position of the evaluation
    turn_idx,           \* index of the turn the loop is at
    pending,            \* tool calls of the current response not yet executed
    messages,           \* the conversation history
    tools_used,
    tool_call_details,
    result,             \* <<>> or <<the EvaluationResult returned>>
    raised,             \* exception that left the entry function, <<>> if none
    trajectory_raised,  \* exception that left run_evals_trajectory, <<>> if none
    judge_request,      \* <<>> or <<what the judge prompt was built from>>
    judge_response,     \* <<>> or <<what the judge completion gave>>
    agent_calls,        \* agent acompletion calls made
    judge_calls,        \* judge acompletion calls made
    server_calls,       \* names passed to client.call_tool, in order
    invocations,        \* calls of _execute_tool_call
    tool_outcome,       \* <<>> or <<what the last client.call_tool did>>
    evaluator_calls,    \* the calls made of evaluators and of grade, with arguments
    tasks,              \* the evaluations run side by side, by task id
    heap                \* the lists those evaluations allocated, by address

vars == <<entry, case, advertised, pc, turn_idx, pending, messages, tools_used,
          tool_call_details, result, raised, trajectory_raised, judge_request,
          judge_response, agent_calls, judge_calls, server_calls, invocations,
          tool_outcome, evaluator_calls, tasks, heap>>

ServerSource == "server"

\* The model argument of the evaluation, and expected_result (None).
ModelName == "gpt-4"

ExpectedResult == <<>>

\* core.py 726-731: the evaluator evaluate_case awaits, with its arguments.
evaluator_call(mode) ==
    IF mode = "trajectory"
    THEN [function |-> "evaluate_mcp_server_trajectory",
          args |-> <<ServerSource, case.turns, ModelName, ExpectedResult>>]
    ELSE [function |-> "evaluate_mcp_server",
          args |-> <<ServerSource, case.prompt, ModelName, ExpectedResult>>]

\* evaluate_case: a trajectory case with turns, else a case with a prompt.
Mode ==
    IF case.is_trajectory /\ case.turns # <<>> THEN "trajectory"
    ELSE IF case.prompt # <<>> THEN "single"
    ELSE "invalid"

\* The turns handed to run_evals_trajectory.
Turns ==
    IF Mode = "single"
    THEN <<ConversationTurn("user", case.prompt, <<>>)>>
    ELSE case.turns

\* Where the turn loop stands with index idx: at a turn, or past the last.
LoopPc(idx) == IF idx > Len(Turns) THEN "returned" ELSE "turn"

InitCommon ==
    /\ turn_idx = 1
    /\ pending = <<>>
    /\ result = <<>>
    /\ raised = <<>>
    /\ trajectory_raised = <<>>
    /\ judge_request = <<>>
    /\ judge_response = <<>>
    /\ agent_calls = 0
    /\ judge_calls = 0
    /\ server_calls = <<>>
    /\ invocations = 0
    /\ tool_outcome = <<>>
    /\ tasks = <<>>
    /\ heap = <<>>

\* A caller enters evaluate_case with a constructed case.
Init ==
    /\ entry = "evaluate_case"
    /\ case \in Cases
    /\ advertised \in AdvertisedSets
    /\ pc = "evaluate_case"
    /\ messages = <<>>
    /\ tools_used = <<>>
    /\ tool_call_details = <<>>
    /\ InitCommon
    /\ evaluator_calls = <<>>

(* --------------------------- ResultAssembler --------------------------- *)

\* core.py 614-616 / 688-690: the error message of the except clause.
connection_error_message(mode, error) ==
    (IF mode = "single" THEN ConnectionFailedPrefix
     ELSE ConnectionFailedTrajectoryPrefix)
    \o error
    \o (IF error = TransportError
        THEN <<" (server_source: ", ServerSource, ")">> ELSE <<>>)

\* An except clause that leaves the error field empty.
connection_failed_result_without_error(mode, error) ==
    [degraded_result(connection_error_message(mode, error)) EXCEPT
        !.passed = FALSE,
        !.server_source = ServerSource]

\* The except clause of evaluate_mcp_server / evaluate_mcp_server_trajectory.
connection_failed_result(mode, error) ==
    [degraded_result(connection_error_message(mode, error)) EXCEPT
        !.passed = FALSE,
        !.error = error,
        !.server_source = ServerSource]

\* evaluate_case dispatches on the kind of case.
EvaluateCase ==
    /\ pc = "evaluate_case"
    /\ IF Mode = "invalid"
       THEN /\ raised' = <<"EvaluationCase must have either prompt or turns">>
            /\ evaluator_calls' = evaluator_calls
            /\ pc' = "done"
       ELSE /\ raised' = raised
            /\ evaluator_calls' = Append(evaluator_calls, evaluator_call(Mode))
            /\ pc' = "connect"
    /\ UNCHANGED <<entry, case, advertised, turn_idx, pending, messages,
                   tools_used, tool_call_details, result, trajectory_raised,
                   judge_request, judge_response, agent_calls, judge_calls, server_calls,
                   invocations,
                   tool_outcome,
                   tasks, heap>>

\* Client(server_source) and async with client succeed.
ConnectOk ==
    /\ pc = "connect"
    /\ pc' = "list_tools"
    /\ UNCHANGED <<entry, case, advertised, turn_idx, pending, messages,
                   tools_used, tool_call_details, result, raised,
                   trajectory_raised, judge_request, judge_response, agent_calls, judge_calls,
                   server_calls, invocations,
                   tool_outcome, evaluator_calls,
                   tasks, heap>>

\* The session cannot be established: the except clause builds the result.
ConnectFails ==
    /\ pc = "connect"
    /\ \E error \in ConnectErrors :
         result' = <<connection_failed_result(Mode, error)>>
    /\ pc' = "done"
    /\ UNCHANGED <<entry, case, advertised, turn_idx, pending, messages,
                   tools_used, tool_call_details, raised, trajectory_raised,
                   judge_request, judge_response, agent_calls, judge_calls, server_calls,
                   invocations,
                   tool_outcome, evaluator_calls,
                   tasks, heap>>

(* -------------------------- TrajectoryExecutor ------------------------- *)

\* run_evals_trajectory 175-183: the tools are listed, the containers made.
ListToolsOk ==
    /\ pc = "list_tools"
    /\ messages' = <<Message("system", SystemPrompt)>>
    /\ tools_used' = <<>>
    /\ tool_call_details' = <<>>
    /\ turn_idx' = 1
    /\ pc' = LoopPc(1)
    /\ UNCHANGED <<entry, case, advertised, pending, result, raised,
                   trajectory_raised, judge_request, judge_response, agent_calls, judge_calls,
                   server_calls, invocations,
                   tool_outcome, evaluator_calls,
                   tasks, heap>>

\* An evaluation whose except clause lets the exception through.
list_tools_failed_propagates(caller, mode) ==
    [result |-> <<>>, raised |-> ListToolsError]

\* What the caller of run_evals_trajectory sees when list_tools raised: the
\* except clause of evaluate_mcp_server (687) / evaluate_mcp_server_trajectory
\* (613) builds a result; a direct caller gets the exception.
list_tools_failed(caller, mode) ==
    IF caller = "evaluate_case"
    THEN [result |-> <<connection_failed_result(mode, ListToolsError)>>,
          raised |-> <<>>]
    ELSE [result |-> <<>>, raised |-> ListToolsError]

\* list_tools raises at line 175, before the try of line 185: the exception
\* leaves run_evals_trajectory and the caller's except clause takes it.
ListToolsFails ==
    /\ pc = "list_tools"
    /\ trajectory_raised' = ListToolsError
    /\ result' = list_tools_failed(entry, Mode).result
    /\ raised' = list_tools_failed(entry, Mode).raised
    /\ pc' = "done"
    /\ UNCHANGED <<entry, case, advertised, turn_idx, pending, messages,
                   tools_used, tool_call_details, judge_request, judge_response,
                   agent_calls, judge_calls, server_calls, invocations,
                   tool_outcome, evaluator_calls,
                   tasks, heap>>

\* An executor that goes on to the next turn after a failed completion.
agent_failed_continues(history, idx) ==
    [messages |-> Append(history, Message("assistant", ErrTurnPrefix \o LlmError)),
     pending |-> <<>>, turn_idx |-> idx + 1, pc |-> LoopPc(idx + 1)]

\* An executor that returns the error message in place of the history.
agent_failed_drops_history(history, idx) ==
    [messages |-> <<Message("assistant", ErrTurnPrefix \o LlmError)>>,
     pending |-> <<>>, turn_idx |-> idx, pc |-> "returned"]

\* core.py 199-203: the completion of a user turn raised; break.
agent_failed(history, idx) ==
    [messages |-> Append(history, Message("assistant", ErrTurnPrefix \o LlmError)),
     pending |-> <<>>, turn_idx |-> idx, pc |-> "returned"]

\* core.py 208-211, 118-134: the response requests tool calls.
tool_calls_requested(history, message, idx) ==
    [messages |-> Append(history,
                         [role |-> "assistant",
                          content |-> message.content,
                          tool_calls |-> [i \in 1..Len(message.tool_calls) |->
                              [id |-> message.tool_calls[i].id,
                               type |-> message.tool_calls[i].type,
                               function |-> message.tool_calls[i].function]]]),
     pending |-> message.tool_calls, turn_idx |-> idx, pc |-> "tools"]

\* core.py 213-214: a direct answer is appended when it has content.
direct_response(history, message, idx) ==
    [messages |-> IF message.content # <<>>
                  THEN Append(history, Message("assistant", message.content))
                  ELSE history,
     pending |-> <<>>, turn_idx |-> idx + 1, pc |-> LoopPc(idx + 1)]

\* core.py 188-214: one user turn up to its first await after the completion.
user_turn(history, turn, response, idx) ==
    LET h == Append(history, Message("user", turn.content))
    IN  IF response.kind = "raise" THEN agent_failed(h, idx)
        ELSE IF response.tool_calls # <<>>
             THEN tool_calls_requested(h, response, idx)
             ELSE direct_response(h, response, idx)

UserTurn ==
    /\ pc = "turn"
    /\ turn_idx <= Len(Turns)
    /\ Turns[turn_idx].role = "user"
    /\ \E response \in AgentResponses(MaxInvocations - invocations) :
         LET r == user_turn(messages, Turns[turn_idx], response, turn_idx)
         IN  /\ messages' = r.messages
             /\ pending' = r.pending
             /\ turn_idx' = r.turn_idx
             /\ pc' = r.pc
    /\ agent_calls' = agent_calls + 1
    /\ UNCHANGED <<entry, case, advertised, tools_used, tool_call_details,
                   result, raised, trajectory_raised, judge_request, judge_response,
                   judge_calls, server_calls, invocations,
                   tool_outcome, evaluator_calls,
                   tasks, heap>>

\* An executor that appends every scripted turn as an assistant message.
scripted_turn_as_assistant(history, turn) ==
    Append(history, Message("assistant", turn.content))

\* core.py 216-222: the message of an assistant or system turn.
scripted_turn(history, turn) ==
    Append(history, Message(turn.role, turn.content))

\* core.py 216-222: assistant and system turns are appended as they are.
ScriptedTurn ==
    /\ pc = "turn"
    /\ turn_idx <= Len(Turns)
    /\ Turns[turn_idx].role \in {"assistant", "system"}
    /\ messages' = scripted_turn(messages, Turns[turn_idx])
    /\ turn_idx' = turn_idx + 1
    /\ pc' = LoopPc(turn_idx + 1)
    /\ UNCHANGED <<entry, case, advertised, pending, tools_used,
                   tool_call_details, result, raised, trajectory_raised,
                   judge_request, judge_response, agent_calls, judge_calls, server_calls,
                   invocations,
                   tool_outcome, evaluator_calls,
                   tasks, heap>>

\* A handler of the outer try that returns a history of the error alone.
trajectory_failed_fresh_history(history, error, idx) ==
    [messages |-> <<Message("assistant", ErrTrajectoryPrefix \o error)>>,
     pending |-> <<>>, turn_idx |-> idx, pc |-> "returned"]

\* core.py 226-229: the handler of the outer try.
trajectory_failed(history, error, idx) ==
    [messages |-> Append(history, Message("assistant", ErrTrajectoryPrefix \o error)),
     pending |-> <<>>, turn_idx |-> idx, pc |-> "returned"]

\* An executor that asks for the follow-up after the first tool call.
after_tool_call_eager(rest) == "followup"

\* core.py 137-144: the loop goes on with the next call; after the last one
\* the follow-up completion is requested.
after_tool_call(rest) == IF rest = <<>> THEN "followup" ELSE "tools"

\* core.py 137-141: one iteration of the loop over message.tool_calls.
\* What client.call_tool can do for a tool: a server raises for a tool it
\* does not have.
OutcomesFor(name) ==
    {o \in ToolOutcomes : name \notin advertised => o.kind = "raise"}

ExecuteToolCall ==
    /\ pc = "tools"
    /\ pending # <<>>
    /\ \E outcome \in OutcomesFor(Head(pending).function.name) :
         LET call == Head(pending)
             r == execute_tool_call(call, outcome, tool_call_details, tools_used)
             failed == trajectory_failed(messages, r.raised, turn_idx)
         IN  /\ tools_used' = r.tools_used
             /\ tool_call_details' = r.tool_call_details
             /\ server_calls' = IF r.called
                                THEN Append(server_calls, call.function.name)
                                ELSE server_calls
             /\ tool_outcome' = IF r.called THEN <<outcome>> ELSE tool_outcome
             /\ IF r.raised # <<>>
                THEN /\ messages' = failed.messages
                     /\ pending' = failed.pending
                     /\ pc' = failed.pc
                ELSE /\ messages' = Append(messages, r.message)
                     /\ pending' = Tail(pending)
                     /\ pc' = after_tool_call(Tail(pending))
    /\ invocations' = invocations + 1
    /\ UNCHANGED <<entry, case, advertised, turn_idx, result, raised,
                   trajectory_raised, judge_request, judge_response, agent_calls, judge_calls, evaluator_calls,
                   tasks, heap>>

\* An executor that leaves the turn loop when the follow-up completion fails.
final_response_failed_breaks(history, idx) ==
    [messages |-> Append(history, Message("assistant", ErrFinalPrefix \o LlmError)),
     turn_idx |-> idx, pc |-> "returned"]

\* core.py 154-157: the follow-up completion raised; the turn loop goes on.
final_response_failed(history, idx) ==
    [messages |-> Append(history, Message("assistant", ErrFinalPrefix \o LlmError)),
     turn_idx |-> idx + 1, pc |-> LoopPc(idx + 1)]

\* A follow-up whose requested tool calls send the executor back to the
\* tool loop.
final_response_runs_tools(history, response, idx) ==
    IF response.kind = "raise" THEN final_response_failed(history, idx)
    ELSE [messages |-> IF response.content # <<>>
                       THEN Append(history, Message("assistant", response.content))
                       ELSE history,
          turn_idx |-> idx,
          pc |-> IF response.tool_calls # <<>> THEN "tools" ELSE LoopPc(idx + 1)]

\* core.py 144-153: the follow-up answer is appended when it has content.
final_response(history, response, idx) ==
    IF response.kind = "raise" THEN final_response_failed(history, idx)
    ELSE [messages |-> IF response.content # <<>>
                       THEN Append(history, Message("assistant", response.content))
                       ELSE history,
          turn_idx |-> idx + 1, pc |-> LoopPc(idx + 1)]

FinalResponse ==
    /\ pc = "followup"
    /\ \E response \in FinalResponses :
         LET r == final_response(messages, response, turn_idx)
         IN  /\ messages' = r.messages
             /\ turn_idx' = r.turn_idx
             /\ pc' = r.pc
    /\ agent_calls' = agent_calls + 1
    /\ UNCHANGED <<entry, case, advertised, pending, tools_used,
                   tool_call_details, result, raised, trajectory_raised,
                   judge_request, judge_response, judge_calls, server_calls, invocations,
                   tool_outcome, evaluator_calls,
                   tasks, heap>>

(* ------------------------- grading the outcome ------------------------- *)

\* Where the grader is entered: after the trajectory returned to
\* evaluate_mcp_server(_trajectory), or at once when it is called directly.
GradePc == IF entry = "evaluate_case" THEN "returned" ELSE "grade"

GraderMode ==
    IF entry = "evaluate_case" THEN Mode
    ELSE IF entry = "grade" THEN "single"
    ELSE "trajectory"

\* The judge outputs drawn for the entry function.
JudgeChoices ==
    IF entry = "evaluate_case" THEN PipelineJudgeOutputs ELSE JudgeOutputs

\* core.py 669: conversation_history[-1].get("content", "").
server_response_of(history) ==
    IF history # <<>> THEN history[Len(history)].content ELSE <<>>

\* An assembler that sets the server identifier only.
evaluate_mcp_server_result_bare(evaluation, history, used, details) ==
    [evaluation EXCEPT !.server_source = ServerSource]

\* core.py 674-683: the trajectory's records are merged into the result.
evaluate_mcp_server_result(evaluation, history, used, details) ==
    [evaluation EXCEPT
        !.tools_used = used,
        !.conversation_history = history,
        !.tool_call_details = details,
        !.total_execution_time_ms = total_execution_time(details),
        !.failed_tool_calls = failed_tool_calls_of(details),
        !.server_source = ServerSource]

\* core.py 610: evaluation.server_source = str(server_source).
evaluate_mcp_server_trajectory_result(evaluation) ==
    [evaluation EXCEPT !.server_source = ServerSource]

\* grade 441-446: the parameters of grade.
GradeParameters == {"model", "prompt", "server_response", "expected_result"}

UnexpectedKeywordError == "grade() got an unexpected keyword argument"

\* A direct call of grade binds its keyword arguments to the parameters.
grade_call_binds ==
    entry = "grade" => evaluator_calls[1].keywords \subseteq GradeParameters

\* evaluate_mcp_server 666-685: grade the last message, assemble the result;
\* or grade called directly, its server_response the content held. A call
\* with a keyword grade does not declare raises before the body runs.
GradeSingle ==
    /\ pc = GradePc
    /\ GraderMode = "single"
    /\ IF grade_call_binds
       THEN /\ \E judge \in JudgeChoices :
                 /\ judge_response' = <<judge>>
                 /\ result' = <<IF entry = "evaluate_case"
                                 THEN evaluate_mcp_server_result(
                                          grade(judge,
                                                server_response_of(messages)),
                                          messages, tools_used,
                                          tool_call_details)
                                 ELSE grade(judge,
                                            server_response_of(messages))>>
            /\ judge_request' =
                   <<[prompt |-> case.prompt,
                      server_response |-> server_response_of(messages)]>>
            /\ judge_calls' = judge_calls + 1
            /\ raised' = raised
       ELSE /\ raised' = <<UnexpectedKeywordError>>
            /\ UNCHANGED <<judge_response, result, judge_request,
                           judge_calls>>
    /\ pc' = "done"
    /\ UNCHANGED <<entry, case, advertised, turn_idx, pending, messages,
                   tools_used, tool_call_details, trajectory_raised,
                   agent_calls, server_calls, invocations,
                   tool_outcome, evaluator_calls,
                   tasks, heap>>

\* grade_trajectory, called by evaluate_mcp_server_trajectory (607-611) or
\* directly with a conversation history.
GradeTrajectory ==
    /\ pc = GradePc
    /\ GraderMode = "trajectory"
    /\ \E judge \in JudgeChoices :
         LET evaluation == grade_trajectory(judge, messages, tools_used,
                                            tool_call_details)
         IN  /\ judge_response' = <<judge>>
             /\ result' = <<IF entry = "evaluate_case"
                             THEN evaluate_mcp_server_trajectory_result(evaluation)
                             ELSE evaluation>>
    /\ judge_request' = <<[conversation_summary |-> conversation_summary(messages),
                           expected_tools_check |->
                               expected_tools_check(Turns, tools_used)]>>
    /\ judge_calls' = judge_calls + 1
    /\ pc' = "done"
    /\ UNCHANGED <<entry, case, advertised, turn_idx, pending, messages,
                   tools_used, tool_call_details, raised, trajectory_raised,
                   agent_calls, server_calls, invocations,
                   tool_outcome, evaluator_calls,
                   tasks, heap>>

Next ==
    \/ EvaluateCase
    \/ ConnectOk
    \/ ConnectFails
    \/ ListToolsOk
    \/ ListToolsFails
    \/ UserTurn
    \/ ScriptedTurn
    \/ ExecuteToolCall
    \/ FinalResponse
    \/ GradeSingle
    \/ GradeTrajectory

\* One evaluation, from evaluate_case to the returned result.
Spec == Init /\ [][Next]_vars

(* ---------------- run_evals_trajectory called directly ---------------- *)

\* A caller hands run_evals_trajectory a connected client and the turns.
InitTrajectory ==
    /\ entry = "run_evals_trajectory"
    /\ case \in {EvaluationCase(<<>>, ts, <<>>, DefaultThreshold) : ts \in TurnLists}
    /\ advertised \in AdvertisedSets
    /\ pc = "list_tools"
    /\ messages = <<>>
    /\ tools_used = <<>>
    /\ tool_call_details = <<>>
    /\ InitCommon
    /\ evaluator_calls = <<>>

NextTrajectory ==
    \/ ListToolsOk
    \/ ListToolsFails
    \/ UserTurn
    \/ ScriptedTurn
    \/ ExecuteToolCall
    \/ FinalResponse

\* One run of the trajectory executor, up to its return.
SpecTrajectory == InitTrajectory /\ [][NextTrajectory]_vars

(* ----------------- _execute_tool_call called directly ------------------ *)

\* A text of n characters.
Chars(n) == [i \in 1..n |-> "x"]

\* Result texts around the preview limit, and the one of the long-result test.
ResultTexts ==
    {Chars(n) : n \in {0, 1, PreviewLimit - 1, PreviewLimit, PreviewLimit + 1,
                       PreviewLimit + 50}}

ContentItems ==
    {<<>>, <<[text |-> <<"a">>]>>,
     <<[text |-> <<"a">>], [text |-> <<"b">>]>>,
     <<[text |-> <<"b">>], [text |-> <<"a">>]>>,
     <<[text |-> <<"a">>], [other |-> 0], [text |-> <<"b">>]>>}

\* What call_tool returns: an object with data, with content (a string or
\* a list of items), with both, or with neither.
InvokerResults ==
    {[data |-> t] : t \in ResultTexts}
    \cup {[data |-> <<"d">>, content |-> [is_list |-> FALSE, text |-> <<"c">>]],
          [data |-> <<"d">>,
           content |-> [is_list |-> TRUE, items |-> <<[text |-> <<"c">>]>>]]}
    \cup {[content |-> [is_list |-> FALSE, text |-> t]] :
            t \in {<<"c">>, Chars(PreviewLimit + 1)}}
    \cup {[content |-> [is_list |-> TRUE, items |-> its]] : its \in ContentItems}
    \cup {[other |-> 0]}

InvokerOutcomes ==
    {[kind |-> "ok", result |-> r, elapsed_ms |-> t] :
        r \in InvokerResults, t \in ElapsedChoices}
    \cup {[kind |-> "raise", elapsed_ms |-> t] : t \in ElapsedChoices}

\* A caller hands _execute_tool_call a tool call and its two lists.
InitInvoker ==
    /\ entry = "_execute_tool_call"
    /\ case = EvaluationCase(TurnContent(1), <<>>, <<>>, DefaultThreshold)
    /\ advertised \in AdvertisedSets
    /\ pc = "invoke"
    /\ messages = <<>>
    /\ \E c \in ToolNames \X ArgumentTexts :
         pending = <<ToolCall(1, c[1], c[2])>>
    /\ \/ tools_used = <<>> /\ tool_call_details = <<>>
       \/ /\ tools_used = <<"tool_a">>
          /\ tool_call_details = <<[tool_name |-> "tool_a",
                                     arguments |-> DecodedArgs,
                                     success |-> TRUE,
                                     execution_time_ms |-> 7,
                                     result_preview |-> <<"4", "2">>]>>
       \/ /\ tools_used = <<"wrong_tool">>
          /\ tool_call_details = <<[tool_name |-> "wrong_tool",
                                     arguments |-> DecodedArgs,
                                     success |-> FALSE,
                                     execution_time_ms |-> 7,
                                     error_message |-> ToolError]>>
    /\ turn_idx = 1
    /\ result = <<>>
    /\ raised = <<>>
    /\ trajectory_raised = <<>>
    /\ judge_request = <<>>
    /\ judge_response = <<>>
    /\ agent_calls = 0
    /\ judge_calls = 0
    /\ server_calls = <<>>
    /\ invocations = 0
    /\ tool_outcome = <<>>
    /\ tasks = <<>>
    /\ heap = <<>>
    /\ evaluator_calls = <<>>

\* One call of _execute_tool_call: the message it returns is kept in
\* messages, an exception that leaves it in raised.
InvokeTool ==
    /\ pc = "invoke"
    /\ \E outcome \in InvokerOutcomes :
         LET call == Head(pending)
             r == execute_tool_call(call, outcome, tool_call_details, tools_used)
         IN  /\ tools_used' = r.tools_used
             /\ tool_call_details' = r.tool_call_details
             /\ server_calls' = IF r.called
                                THEN Append(server_calls, call.function.name)
                                ELSE server_calls
             /\ raised' = r.raised
             /\ messages' = IF r.raised = <<>> THEN <<r.message>> ELSE messages
             /\ tool_outcome' = IF r.called THEN <<outcome>> ELSE tool_outcome
    /\ invocations' = invocations + 1
    /\ pc' = "done"
    /\ UNCHANGED <<entry, case, advertised, turn_idx, pending, result,
                   trajectory_raised, judge_request, judge_response, agent_calls,
                   judge_calls, evaluator_calls,
                   tasks, heap>>

NextInvoker == InvokeTool

SpecInvoker == InitInvoker /\ [][NextInvoker]_vars

(* ----------------------- EvaluationCase constructed --------------------- *)

\* A caller is about to construct a case from its arguments (held in case).
InitCase ==
    /\ entry = "EvaluationCase"
    /\ case \in CaseArguments
    /\ advertised \in AdvertisedSets
    /\ pc = "construct"
    /\ messages = <<>>
    /\ tools_used = <<>>
    /\ tool_call_details = <<>>
    /\ InitCommon
    /\ evaluator_calls = <<>>

\* The constructor validates and returns the case, or raises.
ConstructCase ==
    /\ pc = "construct"
    /\ LET r == construct_case(case.prompt, case.turns, case.expected_tools,
                               case.threshold)
       IN  /\ raised' = r.raised
           /\ case' = IF r.raised = <<>> THEN r.case ELSE case
    /\ pc' = "done"
    /\ UNCHANGED <<entry, advertised, turn_idx, pending, messages, tools_used,
                   tool_call_details, result, trajectory_raised, judge_request,
                   judge_response, agent_calls, judge_calls, server_calls,
                   invocations,
                   tool_outcome, evaluator_calls,
                   tasks, heap>>

NextCase == ConstructCase

SpecCase == InitCase /\ [][NextCase]_vars

(* ------------------ grade_trajectory called directly ------------------- *)

\* The tools a turn of a supplied history may have invoked.
ActualChoices == {<<>>, <<"tool_a">>, <<"wrong_tool">>}

SetOf(seq) == {seq[i] : i \in 1..Len(seq)}

\* Turn-validation metadata of a turn: tools_match is set equality.
TurnMetadata(i, expected, actual) ==
    [turn_index |-> i - 1, expected_tools |-> expected, actual_tools |-> actual,
     tools_match |-> (SetOf(expected) = SetOf(actual))]

\* What a supplied history records for a turn: an answer without metadata,
\* or an answer carrying the metadata of the tools the turn invoked.
TurnRecordings ==
    {[meta |-> FALSE, actual |-> <<>>]}
    \cup {[meta |-> TRUE, actual |-> a] : a \in ActualChoices}

RECURSIVE SuppliedMessages(_, _, _)
SuppliedMessages(turns, rec, i) ==
    IF i > Len(rec) THEN <<>>
    ELSE <<Message("user", turns[i].content),
           IF rec[i].meta
           THEN [role |-> "assistant", content |-> AgentAnswer,
                 turn_metadata |-> TurnMetadata(i, turns[i].expected_tools,
                                                rec[i].actual)]
           ELSE Message("assistant", AgentAnswer)>>
         \o SuppliedMessages(turns, rec, i + 1)

RECURSIVE SuppliedTools(_, _)
SuppliedTools(rec, i) ==
    IF i > Len(rec) THEN <<>> ELSE rec[i].actual \o SuppliedTools(rec, i + 1)

UserTurnLists == {ts \in TurnLists : \A i \in 1..Len(ts) : ts[i].role = "user"}

\* The keyword arguments of a direct call of grade: the three required ones,
\* or those with expected_tools and tools_used as well.
GradeKeywords ==
    {{"model", "prompt", "server_response"},
     {"model", "prompt", "server_response", "expected_tools", "tools_used"}}

\* A caller hands grade_trajectory the history of the first n turns, or
\* hands grade a prompt and a server response.
InitGrade ==
    /\ \/ /\ entry = "grade_trajectory"
          /\ evaluator_calls = <<>>
          /\ \E ts \in UserTurnLists :
               /\ case = EvaluationCase(<<>>, ts, <<>>, DefaultThreshold)
               /\ \E n \in 1..Len(ts) : \E rec \in [1..n -> TurnRecordings] :
                    /\ messages = <<Message("system", SystemPrompt)>>
                                  \o SuppliedMessages(ts, rec, 1)
                    /\ tools_used = SuppliedTools(rec, 1)
       \/ /\ entry = "grade"
          /\ \E response \in {<<>>, AgentAnswer} :
               messages = <<Message("assistant", response)>>
          /\ \E keywords \in GradeKeywords :
               /\ evaluator_calls = <<[function |-> "grade",
                                       keywords |-> keywords]>>
               /\ IF "expected_tools" \in keywords
                  THEN /\ case = EvaluationCase(TurnContent(1), <<>>,
                                                <<"tool_a">>, DefaultThreshold)
                       /\ tools_used \in {<<>>, <<"tool_a">>}
                  ELSE /\ case = EvaluationCase(TurnContent(1), <<>>, <<>>,
                                                DefaultThreshold)
                       /\ tools_used = <<>>
    /\ advertised = {"tool_a"}
    /\ tool_call_details = <<>>
    /\ pc = "grade"
    /\ InitCommon

NextGrade ==
    \/ GradeTrajectory
    \/ GradeSingle

SpecGrade == InitGrade /\ [][NextGrade]_vars

(* ------------------------ run_evals called directly ------------------- *)

NoToolsText == <<"No tools available from the MCP server.">>

NoResponseText == <<"No response generated">>

\* A run_evals that answers with the content of the last message.
run_evals_last_message(history) ==
    IF history = <<>> THEN NoResponseText
    ELSE history[Len(history)].content

\* core.py 255-261: the content of the last assistant message, searched
\* from the end of the history; the fixed text when there is none.
RECURSIVE run_evals_response(_)
run_evals_response(history) ==
    IF history = <<>> THEN NoResponseText
    ELSE IF history[Len(history)].role = "assistant"
         THEN history[Len(history)].content
         ELSE run_evals_response(SubSeq(history, 1, Len(history) - 1))

\* core.py 246-249: list_tools is awaited first; without tools the fixed
\* text is returned at once, and an exception of list_tools leaves run_evals.
RunEvalsListTools ==
    /\ pc = "run_evals"
    /\ \E listed \in BOOLEAN :
         IF ~listed
         THEN /\ raised' = ListToolsError
              /\ result' = result
              /\ pc' = "done"
         ELSE IF advertised = {}
         THEN /\ raised' = raised
              /\ result' = <<NoToolsText>>
              /\ pc' = "done"
         ELSE /\ raised' = raised
              /\ result' = result
              /\ pc' = "list_tools"
    /\ UNCHANGED <<entry, case, advertised, turn_idx, pending, messages,
                   tools_used, tool_call_details, trajectory_raised,
                   judge_request, judge_response, agent_calls, judge_calls,
                   server_calls, invocations, tool_outcome, evaluator_calls,
                   tasks, heap>>

\* core.py 252-261: the trajectory of the single turn returned.
RunEvalsReturn ==
    /\ entry = "run_evals"
    /\ pc = "returned"
    /\ result' = <<run_evals_response(messages)>>
    /\ pc' = "done"
    /\ UNCHANGED <<entry, case, advertised, turn_idx, pending, messages,
                   tools_used, tool_call_details, raised, trajectory_raised,
                   judge_request, judge_response, agent_calls, judge_calls,
                   server_calls, invocations, tool_outcome, evaluator_calls,
                   tasks, heap>>

\* A caller hands run_evals a connected client and a prompt; the server
\* advertises a tool or none.
InitRunEvals ==
    /\ entry = "run_evals"
    /\ case = EvaluationCase(TurnContent(1), <<>>, <<>>, DefaultThreshold)
    /\ advertised \in AdvertisedSets \cup {{}}
    /\ pc = "run_evals"
    /\ messages = <<>>
    /\ tools_used = <<>>
    /\ tool_call_details = <<>>
    /\ InitCommon
    /\ evaluator_calls = <<>>

NextRunEvals ==
    \/ RunEvalsListTools
    \/ ListToolsOk
    \/ ListToolsFails
    \/ UserTurn
    \/ ExecuteToolCall
    \/ FinalResponse
    \/ RunEvalsReturn

SpecRunEvals == InitRunEvals /\ [][NextRunEvals]_vars

(* ---------------------- evaluations side by side ---------------------- *)

\* The evaluations a caller schedules together.
TaskIds == {1, 2}

\* The lists run_evals_trajectory makes for one evaluation.
Containers == {"messages", "tools_used", "tool_call_details"}

\* A list lives at an address; two names of one address are one list.
Addresses == TaskIds \X Containers

EmptyHeap == [a \in Addresses |-> <<>>]

\* An executor whose lists are made once and used by every evaluation.
allocate_shared(id) == [c \in Containers |-> <<1, c>>]

\* core.py 181-183: every call makes three lists of its own.
allocate(id) == [c \in Containers |-> <<id, c>>]

\* What the collaborators answer to one evaluation: the completion of a user
\* turn, call_tool, the follow-up completion and the judge.
TaskScripts ==
    {[turns |-> <<ConversationTurn("user", TurnContent(1), <<"tool_a">>)>>,
      agent |-> [kind |-> "message", content |-> <<>>,
                 tool_calls |-> <<ToolCall(1, "tool_a", <<JsonLine(DecodedArgs)>>)>>],
      outcome |-> [kind |-> "ok", result |-> [data |-> <<"4", "2">>],
                   elapsed_ms |-> 7],
      final |-> [kind |-> "message", content |-> AgentAnswer,
                 tool_calls |-> <<>>],
      judge |-> [kind |-> "text", lines |-> <<JsonLine(JudgeObject(Uniform(4)))>>]],
     [turns |-> <<ConversationTurn("user", TurnContent(1), <<>>),
                  ConversationTurn("assistant", TurnContent(2), <<>>),
                  ConversationTurn("user", TurnContent(3), <<>>)>>,
      agent |-> [kind |-> "message", content |-> AgentAnswer, tool_calls |-> <<>>],
      outcome |-> [kind |-> "raise", elapsed_ms |-> 7],
      final |-> [kind |-> "raise"],
      judge |-> [kind |-> "text", lines |-> <<JsonLine(JudgeObject(Uniform(2)))>>]],
     [turns |-> <<ConversationTurn("user", TurnContent(1), <<>>)>>,
      agent |-> [kind |-> "message", content |-> <<>>,
                 tool_calls |-> <<ToolCall(1, "wrong_tool", <<JsonLine(DecodedArgs)>>),
                                  ToolCall(2, "tool_a", <<Junk>>)>>],
      outcome |-> [kind |-> "raise", elapsed_ms |-> 7],
      final |-> [kind |-> "raise"],
      judge |-> [kind |-> "text", lines |-> <<Junk>>]]}

\* An evaluation before its first step; overlapped tells whether a step of
\* it was taken while another evaluation was under way.
initial_task(id, script) ==
    [id |-> id, script |-> script, pc |-> "start", turn_idx |-> 1,
     pending |-> <<>>, refs |-> <<>>, result |-> <<>>, overlapped |-> FALSE]

\* Where the turn loop over turns stands with index idx.
loop_pc(turns, idx) == IF idx > Len(turns) THEN "returned" ELSE "turn"

\* Where an evaluation stands after a step that ended at r: at its tool
\* calls, out of the loop by break, or at the turn of r.turn_idx.
next_pc(r, t) ==
    IF r.pc = "tools" THEN "tools"
    ELSE IF r.turn_idx = t.turn_idx THEN "returned"
    ELSE loop_pc(t.script.turns, r.turn_idx)

\* run_evals_trajectory 175-183: the tools are listed, the lists are made.
task_start(t, h) ==
    LET refs == allocate(t.id)
    IN  [task |-> [t EXCEPT !.refs = refs,
                            !.pc = loop_pc(t.script.turns, 1)],
         heap |-> [h EXCEPT ![refs.messages] = <<Message("system", SystemPrompt)>>,
                            ![refs.tools_used] = <<>>,
                            ![refs.tool_call_details] = <<>>]]

\* core.py 186-222: one turn of the loop up to its next await.
task_turn(t, h) ==
    LET turn == t.script.turns[t.turn_idx]
        history == h[t.refs.messages]
    IN  IF turn.role = "user"
        THEN LET r == user_turn(history, turn, t.script.agent, t.turn_idx)
             IN  [task |-> [t EXCEPT !.pending = r.pending,
                                     !.turn_idx = r.turn_idx,
                                     !.pc = next_pc(r, t)],
                  heap |-> [h EXCEPT ![t.refs.messages] = r.messages]]
        ELSE [task |-> [t EXCEPT !.turn_idx = t.turn_idx + 1,
                                 !.pc = loop_pc(t.script.turns, t.turn_idx + 1)],
              heap |-> [h EXCEPT ![t.refs.messages] = scripted_turn(history, turn)]]

\* core.py 137-141: one tool call of the pending ones.
task_tool_call(t, h) ==
    LET call == Head(t.pending)
        r == execute_tool_call(call, t.script.outcome,
                               h[t.refs.tool_call_details], h[t.refs.tools_used])
        failed == trajectory_failed(h[t.refs.messages], r.raised, t.turn_idx)
        h1 == [h EXCEPT ![t.refs.tools_used] = r.tools_used,
                        ![t.refs.tool_call_details] = r.tool_call_details]
    IN  IF r.raised # <<>>
        THEN [task |-> [t EXCEPT !.pending = <<>>, !.pc = "returned"],
              heap |-> [h1 EXCEPT ![t.refs.messages] = failed.messages]]
        ELSE [task |-> [t EXCEPT !.pending = Tail(t.pending),
                                 !.pc = after_tool_call(Tail(t.pending))],
              heap |-> [h1 EXCEPT ![t.refs.messages] =
                                      Append(h[t.refs.messages], r.message)]]

\* core.py 144-157: the follow-up completion.
task_followup(t, h) ==
    LET r == final_response(h[t.refs.messages], t.script.final, t.turn_idx)
    IN  [task |-> [t EXCEPT !.turn_idx = r.turn_idx,
                            !.pc = loop_pc(t.script.turns, r.turn_idx)],
         heap |-> [h EXCEPT ![t.refs.messages] = r.messages]]

\* evaluate_mcp_server_trajectory 607-611: the returned lists are graded.
task_grade(t, h) ==
    [task |-> [t EXCEPT
                 !.result = <<evaluate_mcp_server_trajectory_result(
                                 grade_trajectory(t.script.judge,
                                                  h[t.refs.messages],
                                                  h[t.refs.tools_used],
                                                  h[t.refs.tool_call_details]))>>,
                 !.pc = "done"],
     heap |-> h]

\* The step an evaluation takes from where it stands.
step_task(t, h) ==
    CASE t.pc = "start" -> task_start(t, h)
      [] t.pc = "turn" -> task_turn(t, h)
      [] t.pc = "tools" -> task_tool_call(t, h)
      [] t.pc = "followup" -> task_followup(t, h)
      [] t.pc = "returned" -> task_grade(t, h)

\* The result of an evaluation that runs from t with no other beside it.
RECURSIVE run_alone(_, _)
run_alone(t, h) ==
    IF t.pc = "done" THEN t.result
    ELSE run_alone(step_task(t, h).task, step_task(t, h).heap)

\* Another evaluation has started and has not finished.
OtherUnderWay(i) ==
    \E j \in TaskIds \ {i} : tasks[j].pc \notin {"start", "done"}

\* The event loop resumes evaluation i for one step.
Resume(i) ==
    LET s == step_task(tasks[i], heap)
    IN  /\ tasks' = [tasks EXCEPT ![i] =
                        [s.task EXCEPT !.overlapped = @ \/ OtherUnderWay(i)]]
        /\ heap' = s.heap
        /\ UNCHANGED <<entry, case, advertised, pc, turn_idx, pending, messages,
                       tools_used, tool_call_details, result, raised,
                       trajectory_raised, judge_request, judge_response,
                       agent_calls, judge_calls, server_calls, invocations,
                       tool_outcome, evaluator_calls>>

TaskStart(i) == tasks[i].pc = "start" /\ Resume(i)

TaskTurn(i) == tasks[i].pc = "turn" /\ Resume(i)

TaskToolCall(i) == tasks[i].pc = "tools" /\ Resume(i)

TaskFollowUp(i) == tasks[i].pc = "followup" /\ Resume(i)

TaskGrade(i) == tasks[i].pc = "returned" /\ Resume(i)

\* A caller gathers two evaluations, each with collaborators of its own.
InitConcurrent ==
    /\ entry = "gather"
    /\ case = EvaluationCase(<<>>, <<>>, <<>>, DefaultThreshold)
    /\ advertised = {"tool_a"}
    /\ pc = "gather"
    /\ messages = <<>>
    /\ tools_used = <<>>
    /\ tool_call_details = <<>>
    /\ turn_idx = 1
    /\ pending = <<>>
    /\ result = <<>>
    /\ raised = <<>>
    /\ trajectory_raised = <<>>
    /\ judge_request = <<>>
    /\ judge_response = <<>>
    /\ agent_calls = 0
    /\ judge_calls = 0
    /\ server_calls = <<>>
    /\ invocations = 0
    /\ tool_outcome = <<>>
    /\ evaluator_calls = <<>>
    /\ \E scripts \in [TaskIds -> TaskScripts] :
         tasks = [i \in TaskIds |-> initial_task(i, scripts[i])]
    /\ heap = EmptyHeap

NextConcurrent ==
    \E i \in TaskIds :
        \/ TaskStart(i)
        \/ TaskTurn(i)
        \/ TaskToolCall(i)
        \/ TaskFollowUp(i)
        \/ TaskGrade(i)

SpecConcurrent == InitConcurrent /\ [][NextConcurrent]_vars

(* ------------------------------ properties ---------------------------- *)

Returned == pc = "done" /\ result # <<>>

\* A turn of the history carries validation metadata with tools_match false.
HasMismatch(history) ==
    \E i \in 1..Len(history) :
        /\ "turn_metadata" \in DOMAIN history[i]
        /\ ~history[i].turn_metadata.tools_match

\* part occurs in text as a run of consecutive fragments.
ContainsText(text, part) ==
    \E i \in 1..(Len(text) - Len(part) + 1) :
        SubSeq(text, i, i + Len(part) - 1) = part

ExpectedButGot(meta) ==
    <<"Expected [">> \o meta.expected_tools \o <<"] but got [">>
    \o meta.actual_tools \o <<"]">>

AllScoresOne(r) ==
    /\ r.accuracy = 1 /\ r.completeness = 1 /\ r.relevance = 1
    /\ r.clarity = 1 /\ r.reasoning = 1

\* C1: the result of evaluate_case has passed true exactly when
\* average_score >= the threshold of the case and no turn of the history
\* carries a tool-validation mismatch.
C1_PassedIffThresholdAndGate ==
    Returned =>
        (result[1].passed <=>
            (/\ result[1].average_score >= Fifths(case.threshold)
             /\ ~HasMismatch(messages)))

\* C2: grade_trajectory, given a history in which a turn has tools_match
\* false, returns all five sub-scores 1, average_score 1.0, passed false and
\* comments that contain "TOOL VALIDATION FAILED" and, for the mismatching
\* turn, "Expected [<expected tools>] but got [<actual tools>]".
C2_MismatchFailsValidation ==
    (Returned /\ HasMismatch(messages)) =>
        /\ AllScoresOne(result[1])
        /\ result[1].average_score = Fifths(1)
        /\ ~result[1].passed
        /\ Contains(result[1].overall_comments, "TOOL VALIDATION FAILED")
        /\ \E i \in 1..Len(messages) :
             /\ "turn_metadata" \in DOMAIN messages[i]
             /\ ~messages[i].turn_metadata.tools_match
             /\ ContainsText(result[1].overall_comments,
                             ExpectedButGot(messages[i].turn_metadata))

\* C3: once a turn of the history has tools_match false, no judge completion
\* is made for the evaluation.
C3_NoJudgeCallAfterMismatch ==
    HasMismatch(messages) => judge_calls = 0

\* C4: a tool name the server does not advertise never appears in
\* tools_used, and the record of such a call has hallucinated true, success
\* false and the requested name.
C4_HallucinationNotUsed ==
    /\ \A i \in 1..Len(tools_used) : tools_used[i] \in advertised
    /\ \A i \in 1..Len(tool_call_details) :
         tool_call_details[i].tool_name \notin advertised =>
            /\ "hallucinated" \in DOMAIN tool_call_details[i]
            /\ tool_call_details[i].hallucinated
            /\ ~tool_call_details[i].success

\* C5: call_tool is never invoked for a tool the server does not advertise;
\* the tool message returned for such a request says the tool does not exist.
C5_NoCallForUnadvertisedTool ==
    /\ \A i \in 1..Len(server_calls) : server_calls[i] \in advertised
    /\ \A i \in 1..Len(messages) : \A j \in 1..Len(messages) :
         (/\ "tool_calls" \in DOMAIN messages[i]
          /\ messages[j].role = "tool"
          /\ i < j /\ j <= i + Len(messages[i].tool_calls)
          /\ messages[i].tool_calls[j - i].function.name \notin advertised)
         => (/\ messages[j].tool_call_id = messages[i].tool_calls[j - i].id
             /\ Contains(messages[j].content, "does not exist"))

\* C6: every invocation of the tool invoker appends exactly one record:
\* after n invocations tool_call_details holds n records.
C6_OneRecordPerInvocation ==
    Len(tool_call_details) = invocations

\* C7: in every result returned, average_score is the mean of the five
\* sub-scores (in fifths: the average equals their sum), also when the JSON
\* of the judge supplies an average_score itself.
C7_AverageIsMean ==
    result # <<>> =>
        result[1].average_score =
            result[1].accuracy + result[1].completeness + result[1].relevance
            + result[1].clarity + result[1].reasoning

\* A result graded from a judge object that carried its own average_score.
C7_Witness ==
    /\ Returned
    /\ judge_response # <<>>
    /\ judge_response[1].kind = "text"
    /\ Len(judge_response[1].lines) = 1
    /\ judge_response[1].lines[1].kind = "json"
    /\ "average_score" \in DOMAIN judge_response[1].lines[1].value
    /\ judge_response[1].lines[1].value.average_score # result[1].average_score
    /\ result[1].overall_comments = JudgeComments

AgentErrorMessage == Message("assistant", ErrTurnPrefix \o LlmError)

FinalErrorMessage == Message("assistant", ErrFinalPrefix \o LlmError)

TrajectoryErrorMessage == Message("assistant", ErrTrajectoryPrefix \o JsonError)

Occurs(history, message) == \E i \in 1..Len(history) : history[i] = message

Occurrences(history, message) ==
    Cardinality({i \in 1..Len(history) : history[i] = message})

\* The agent completion of the user turn at turn_idx failed.
AgentFailed == Occurs(messages, AgentErrorMessage)

\* C8: when the agent completion of a user turn fails, one assistant message
\* with the error text is appended after the user message of that turn, no
\* later turn is processed, no further completion or tool call is made, and
\* run_evals_trajectory returns without raising.
C8_AgentFailureEndsTrajectory ==
    /\ [](AgentFailed =>
            /\ Occurrences(messages, AgentErrorMessage) = 1
            /\ messages[Len(messages)] = AgentErrorMessage
            /\ turn_idx <= Len(Turns)
            /\ Turns[turn_idx].role = "user"
            /\ messages[Len(messages) - 1] =
                   Message("user", Turns[turn_idx].content)
            /\ pc = "returned"
            /\ pending = <<>>
            /\ trajectory_raised = <<>>
            /\ raised = <<>>)
    /\ [][AgentFailed =>
            UNCHANGED <<messages, tools_used, tool_call_details, turn_idx,
                        agent_calls, server_calls, invocations>>]_vars

\* The completion of the first of two declared turns failed, and the
\* executor returned.
C8_Witness ==
    /\ pc = "returned"
    /\ AgentFailed
    /\ turn_idx < Len(Turns)
    /\ agent_calls = 1

\* The declared turns that the history holds, in the order it holds them.
RECURSIVE declared_in(_, _)
declared_in(history, turns) ==
    IF history = <<>> \/ turns = <<>> THEN <<>>
    ELSE IF /\ Head(history).role = Head(turns).role
            /\ Head(history).content = Head(turns).content
         THEN <<Head(turns)>> \o declared_in(Tail(history), Tail(turns))
         ELSE declared_in(Tail(history), turns)

\* C9: when the follow-up completion after the tool calls of a turn fails,
\* an assistant message with the error text is appended and the loop goes on
\* with the next declared turn; a trajectory that ends without a failed turn
\* completion or a top-level error has processed every declared turn in order.
C9_FollowupFailureContinues ==
    /\ [][(pc = "followup" /\ messages' = Append(messages, FinalErrorMessage)) =>
            /\ turn_idx' = turn_idx + 1
            /\ trajectory_raised' = <<>>
            /\ pc' = IF turn_idx < Len(Turns) THEN "turn" ELSE "returned"]_vars
    /\ []((/\ pc = "returned"
           /\ Occurs(messages, FinalErrorMessage)
           /\ ~AgentFailed
           /\ ~Occurs(messages, TrajectoryErrorMessage)) =>
            /\ turn_idx = Len(Turns) + 1
            /\ declared_in(Tail(messages), Turns) = Turns)

\* The follow-up of the first turn failed and the second turn was processed.
C9_Witness ==
    /\ pc = "returned"
    /\ Len(Turns) = 2
    /\ \E i \in 1..(Len(messages) - 1) :
         /\ messages[i] = FinalErrorMessage
         /\ messages[i + 1] = Message(Turns[2].role, Turns[2].content)

\* C10: no exception leaves run_evals_trajectory, whatever fails after it is
\* entered (listing the tools included).
C10_TrajectoryNeverRaises ==
    trajectory_raised = <<>>

\* The fields every EvaluationResult has, with scores within their bounds.
IsEvaluationResult(r) ==
    /\ ScoreKeys \cup {"average_score", "overall_comments", "passed", "error",
                       "tools_used", "tool_call_details", "server_source"}
           \subseteq DOMAIN r
    /\ \A k \in ScoreKeys : r[k] \in MinScore..MaxScore
    /\ r.passed \in BOOLEAN

\* C11: evaluate_case on a constructed case never raises: whatever the
\* tools, the agent, the judge and the connection do, no exception leaves
\* it, and when it is done it has returned an EvaluationResult.
C11_EvaluateCaseNeverRaises ==
    /\ raised = <<>>
    /\ pc = "done" => (result # <<>> /\ IsEvaluationResult(result[1]))

\* list_tools raised inside the evaluation, and a result came back.
C11_Witness ==
    /\ entry = "evaluate_case"
    /\ pc = "done"
    /\ trajectory_raised = ListToolsError
    /\ result # <<>>
    /\ result[1].error = ListToolsError

\* The evaluation ended before run_evals_trajectory made its containers and
\* without an exception of list_tools: the session was not established.
ConnectionFailed ==
    /\ entry = "evaluate_case"
    /\ pc = "done"
    /\ messages = <<>>
    /\ trajectory_raised = <<>>

\* C12: when the session to the server cannot be established, the result
\* has five sub-scores of 1, passed false, the error field set, comments
\* that name the failure ("Server connection/... failed: <error>"), and no
\* agent completion, judge completion or tool call was made.
C12_ConnectionFailureResult ==
    ConnectionFailed =>
        /\ result # <<>>
        /\ AllScoresOne(result[1])
        /\ ~result[1].passed
        /\ result[1].error \in ConnectErrors
        /\ Head(result[1].overall_comments)
              \in {Head(ConnectionFailedPrefix), Head(ConnectionFailedTrajectoryPrefix)}
        /\ ContainsText(result[1].overall_comments, result[1].error)
        /\ agent_calls = 0
        /\ judge_calls = 0
        /\ server_calls = <<>>

\* A trajectory case met a server that could not be reached.
C12_Witness ==
    /\ ConnectionFailed
    /\ Mode = "trajectory"
    /\ result # <<>>
    /\ result[1].error = TransportError

\* The text the judge returned, <<>> when its call raised or was not made.
JudgeLines ==
    IF judge_response # <<>> /\ judge_response[1].kind = "text"
    THEN judge_response[1].lines ELSE <<>>

\* The judge returned a text that is no JSON document once a fence is stripped.
JudgeNotJson ==
    /\ judge_response # <<>>
    /\ judge_response[1].kind = "text"
    /\ ~json_loads(strip_fence(JudgeLines)).ok

IsDegraded(r) ==
    /\ AllScoresOne(r)
    /\ r.average_score = Fifths(1)
    /\ ~r.passed

\* C13: when the output of the judge is not valid JSON after fence
\* stripping, grade and grade_trajectory raise nothing and return five
\* sub-scores of 1, average_score 1.0, passed false and comments that start
\* with "Failed to parse evaluation response: ".
C13_ParseFailureDegrades ==
    (pc = "done" /\ JudgeNotJson) =>
          /\ raised = <<>>
          /\ result # <<>>
          /\ IsDegraded(result[1])
          /\ SubSeq(result[1].overall_comments, 1, Len(FailedToParsePrefix))
                = FailedToParsePrefix

\* grade was handed a fence around text that is no JSON.
C13_Witness ==
    /\ entry = "grade"
    /\ Returned
    /\ JudgeLines = <<FenceOpen, Junk, FenceClose>>

\* The grading failed for another reason than a JSON-decode error: the judge
\* call raised, a score is missing, or the scores do not validate.
JudgeOtherFailure ==
    /\ judge_response # <<>>
    /\ \/ judge_response[1].kind = "raise"
       \/ /\ judge_response[1].kind = "text"
          /\ json_loads(strip_fence(JudgeLines)).ok
          /\ LET value == json_loads(strip_fence(JudgeLines)).value
             IN  \/ ~(ScoreKeys \subseteq DOMAIN value)
                 \/ \E k \in ScoreKeys : value[k] \notin MinScore..MaxScore

\* C14: when grading fails for a reason other than a JSON-decode error,
\* grade and grade_trajectory return the degraded result with comments
\* "Evaluation failed: <error>" and the error field holding the error text;
\* for a judge call that raised, the text of its exception.
C14_OtherFailureDegrades ==
    (pc = "done" /\ JudgeOtherFailure) =>
        /\ result # <<>>
        /\ IsDegraded(result[1])
        /\ result[1].error # <<>>
        /\ result[1].overall_comments = <<"Evaluation failed: ">> \o result[1].error
        /\ judge_response[1].kind = "raise" => result[1].error = LlmError

\* grade_trajectory met a judge call that raised.
C14_Witness ==
    /\ entry = "grade_trajectory"
    /\ Returned
    /\ judge_response = <<[kind |-> "raise"]>>

\* The judge returned scores of 4 inside a json fence, maybe with text after it.
FencedFours ==
    /\ Len(JudgeLines) >= 3
    /\ SubSeq(JudgeLines, 1, 3)
         = <<FenceOpen, JsonLine(JudgeObject(Uniform(4))), FenceClose>>

\* What the grader entered returns for the judge output j.
graded_as(j) ==
    IF GraderMode = "single" THEN grade(j, server_response_of(messages))
    ELSE grade_trajectory(j, messages, tools_used, tool_call_details)

\* C15: scores {4,4,4,4,4} wrapped in a json fence are parsed as if the
\* fence were absent: the result is the one of the enclosed lines alone,
\* with accuracy 4, average_score 4.0, passed true and the comments of the
\* judge.
C15_FenceStripped ==
    (Returned /\ FencedFours) =>
        /\ result[1] = graded_as([kind |-> "text", lines |-> <<JudgeLines[2]>>])
        /\ result[1].accuracy = 4
        /\ result[1].average_score = Fifths(4)
        /\ result[1].passed
        /\ result[1].overall_comments = JudgeComments

\* grade was handed fenced scores of 4 followed by more text.
C15_Witness ==
    /\ entry = "grade"
    /\ Returned
    /\ FencedFours
    /\ Len(JudgeLines) = 4

\* C16: constructing an EvaluationCase with both prompt and turns raises an
\* error containing "Cannot specify both", with neither one containing
\* "Must specify either", and a case that was constructed has exactly one of
\* is_single_prompt / is_trajectory true.
C16_ExactlyOneOfPromptAndTurns ==
    [][pc = "construct" =>
         /\ (case.prompt # <<>> /\ case.turns # <<>>)
               => Contains(raised', "Cannot specify both")
         /\ (case.prompt = <<>> /\ case.turns = <<>>)
               => Contains(raised', "Must specify either")
         /\ raised' = <<>>
               => /\ case'.is_single_prompt # case'.is_trajectory
                  /\ (case.prompt # <<>>) # (case.turns # <<>>)]_vars

\* A construction with both prompt and turns was refused.
C16_Witness ==
    /\ entry = "EvaluationCase"
    /\ pc = "done"
    /\ case.prompt # <<>>
    /\ Len(case.turns) = 2
    /\ raised = CannotSpecifyBoth

\* C17: every result returned after a trajectory was executed, degraded
\* ones included, carries tools_used and tool_call_details of the
\* trajectory, the sum of the execution times, the number of failed records
\* and the server identifier.
C17_ResultCarriesTrajectory ==
    (Returned /\ entry = "evaluate_case" /\ messages # <<>>) =>
        /\ result[1].tools_used = tools_used
        /\ result[1].tool_call_details = tool_call_details
        /\ result[1].total_execution_time_ms = total_execution_time(tool_call_details)
        /\ result[1].failed_tool_calls = failed_tool_calls_of(tool_call_details)
        /\ result[1].server_source = ServerSource

\* The history ends with the assistant message of the requested calls and
\* the responses of those already executed, in the order requested; the
\* calls not yet executed are the pending ones.
ToolTurnInOrder ==
    \E a \in 1..Len(messages) :
        /\ messages[a].role = "assistant"
        /\ "tool_calls" \in DOMAIN messages[a]
        /\ LET n == Len(messages) - a
               calls == messages[a].tool_calls
           IN  /\ Len(calls) = n + Len(pending)
               /\ \A j \in 1..n :
                    /\ messages[a + j].role = "tool"
                    /\ messages[a + j].tool_call_id = calls[j].id
               /\ \A j \in 1..Len(pending) : pending[j] = calls[n + j]

\* C18: in a user turn whose response requests tool calls c1..ck the
\* history receives the assistant message listing them, then the tool
\* responses for c1..ck in this order, one call at a time; no completion is
\* requested while a call is pending, and the follow-up completion is
\* requested with all k responses in the history.
C18_ToolCallsSequential ==
    /\ [](pc \in {"tools", "followup"} =>
            /\ ToolTurnInOrder
            /\ pc = "followup" <=> pending = <<>>)
    /\ [][pc = "tools" =>
            /\ agent_calls' = agent_calls
            /\ Len(messages') = Len(messages) + 1
            /\ server_calls' \in {server_calls,
                                  Append(server_calls, Head(pending).function.name)}]_vars
    /\ [][agent_calls' # agent_calls =>
            \/ pc = "turn"
            \/ pc = "followup" /\ pending = <<>> /\ ToolTurnInOrder]_vars

\* The follow-up completion is about to be requested after two tool calls.
C18_Witness ==
    /\ pc = "followup"
    /\ Len(messages) >= 3
    /\ messages[Len(messages)].role = "tool"
    /\ messages[Len(messages) - 1].role = "tool"
    /\ Len(messages[Len(messages) - 2].tool_calls) = 2

\* The names of the requested calls, in order.
NamesOf(calls) == [j \in 1..Len(calls) |-> calls[j].function.name]

\* The assistant message at a requested tool calls and every one of them
\* got its tool response: the tool calls of that turn were made.
ToolCallsMade(a) ==
    /\ "tool_calls" \in DOMAIN messages[a]
    /\ a + Len(messages[a].tool_calls) <= Len(messages)
    /\ \A j \in 1..Len(messages[a].tool_calls) : messages[a + j].role = "tool"

\* The declared user turn whose message precedes the message at a.
DeclaredTurnOf(a) ==
    CHOOSE t \in 1..Len(Turns) :
        /\ Turns[t].role = "user"
        /\ a > 1
        /\ messages[a - 1] = Message("user", Turns[t].content)

\* C19: once the executor is past a user turn in which tool calls were
\* made, the history carries the validation metadata of that turn: its
\* turn_index, the expected_tools of the declared turn, the names invoked
\* as actual_tools, and tools_match true exactly when the two are equal as
\* sets.
C19_TurnMetadataRecorded ==
    pc \in {"turn", "returned"} =>
        \A a \in 1..Len(messages) :
            ToolCallsMade(a) =>
                \E i \in a..Len(messages) :
                    /\ "turn_metadata" \in DOMAIN messages[i]
                    /\ messages[i].turn_metadata
                         = TurnMetadata(DeclaredTurnOf(a),
                                        Turns[DeclaredTurnOf(a)].expected_tools,
                                        NamesOf(messages[a].tool_calls))

\* The turn loop stands at a declared assistant or system turn.
AtScriptedTurn ==
    /\ pc = "turn"
    /\ turn_idx <= Len(Turns)
    /\ Turns[turn_idx].role \in {"assistant", "system"}

\* C20: a declared assistant or system turn is appended to the history
\* with its role and content, and makes no agent completion call and no
\* tool call; tools_used and tool_call_details stay as they were.
C20_ScriptedTurnVerbatim ==
    [][AtScriptedTurn =>
         /\ messages' = Append(messages, [role |-> Turns[turn_idx].role,
                                          content |-> Turns[turn_idx].content])
         /\ agent_calls' = agent_calls
         /\ UNCHANGED <<tools_used, tool_call_details, server_calls,
                        invocations, pending>>]_vars

\* A system turn, declared first, was appended without any completion call.
C20_Witness ==
    /\ pc \in {"turn", "returned"}
    /\ turn_idx = 2
    /\ Turns[1].role = "system"
    /\ messages = <<Message("system", SystemPrompt),
                    Message("system", TurnContent(1))>>
    /\ agent_calls = 0

\* C21: when the call of an advertised tool raises, the invoker does not
\* raise; its record has success false, hallucinated false and the text of
\* the exception as error_message, the tool message says "Error calling
\* tool: <message>", the name is in tools_used, and the turn goes on with
\* the remaining calls and the follow-up completion.
C21_ToolFailureRecorded ==
    /\ \A i \in 1..Len(tool_call_details) :
         (tool_call_details[i].tool_name \in advertised
          /\ ~tool_call_details[i].success) =>
            /\ "hallucinated" \in DOMAIN tool_call_details[i]
            /\ ~tool_call_details[i].hallucinated
            /\ tool_call_details[i].error_message = ToolError
            /\ \E j \in 1..Len(tools_used) :
                 tools_used[j] = tool_call_details[i].tool_name
            /\ \E j \in 1..Len(messages) :
                 /\ messages[j].role = "tool"
                 /\ messages[j].content = <<"Error calling tool: ">> \o ToolError
    /\ (tool_outcome # <<>> /\ tool_outcome[1].kind = "raise")
         => (raised = <<>> /\ pc \in {"tools", "followup", "turn", "returned"})

\* _execute_tool_call returned after a call_tool that succeeded.
InvokedOk ==
    /\ entry = "_execute_tool_call"
    /\ pc = "done"
    /\ tool_outcome # <<>>
    /\ tool_outcome[1].kind = "ok"

\* The record the invocation appended.
LastRecord == tool_call_details[Len(tool_call_details)]

\* C22: for a successful call with a result text of length L the preview in
\* the record is the first 100 characters followed by "..." (103 in all)
\* when L > 100 and the text itself when L <= 100, and the content of the
\* tool message is the whole text.
C22_PreviewTruncated ==
    InvokedOk =>
        LET text == messages[1].content
            preview == LastRecord.result_preview
        IN  /\ Len(text) > 100 =>
                 /\ Len(preview) = 103
                 /\ SubSeq(preview, 1, 100) = SubSeq(text, 1, 100)
                 /\ SubSeq(preview, 101, 103) = <<".", ".", ".">>
            /\ Len(text) <= 100 => preview = text
            /\ "data" \in DOMAIN tool_outcome[1].result
                 => text = tool_outcome[1].result.data

\* A result text of 101 characters was returned and recorded.
C22_Witness ==
    /\ InvokedOk
    /\ Len(messages[1].content) = 101
    /\ Len(LastRecord.result_preview) = 103

\* The textual parts of a content list, each followed by a newline.
RECURSIVE PartsWithNewlines(_)
PartsWithNewlines(items) ==
    IF items = <<>> THEN <<>>
    ELSE (IF "text" \in DOMAIN Head(items) THEN Head(items).text
          ELSE <<"str(item)">>)
         \o <<"\n">> \o PartsWithNewlines(Tail(items))

\* C23: the text of a successful result is the data payload when there is
\* one, also when a content field is present; else the content, a list as
\* its textual parts joined by newlines in list order, anything else as its
\* string; else the string of the result.
C23_ResultPrecedence ==
    InvokedOk =>
        LET r == tool_outcome[1].result
            text == messages[1].content
        IN  /\ "data" \in DOMAIN r => text = r.data
            /\ ("data" \notin DOMAIN r /\ "content" \in DOMAIN r) =>
                 IF r.content.is_list
                 THEN \/ r.content.items = <<>> /\ text = <<>>
                      \/ text \o <<"\n">> = PartsWithNewlines(r.content.items)
                 ELSE text = r.content.text
            /\ ("data" \notin DOMAIN r /\ "content" \notin DOMAIN r)
                 => text = <<"str(tool_result)">>

\* A result with both a data payload and a content field was formatted.
C23_Witness ==
    /\ InvokedOk
    /\ {"data", "content"} \subseteq DOMAIN tool_outcome[1].result
    /\ messages[1].content = <<"d">>

\* The judge returned plain JSON in which every dimension is at least 4.
JudgeScoresAtLeastFour ==
    /\ Len(JudgeLines) = 1
    /\ JudgeLines[1].kind = "json"
    /\ ScoreKeys \subseteq DOMAIN JudgeLines[1].value
    /\ \A k \in ScoreKeys : JudgeLines[1].value[k] \in 4..5

\* A single-prompt case expecting tool_a ran against a server advertising
\* it, and the agent requested one call of it, which succeeded.
OneExpectedCallSucceeded ==
    /\ entry = "evaluate_case"
    /\ Mode = "single"
    /\ case.expected_tools = <<"tool_a">>
    /\ "tool_a" \in advertised
    /\ invocations = 1
    /\ server_calls = <<"tool_a">>
    /\ Len(tool_call_details) = 1
    /\ tool_call_details[1].success

\* C24: end to end, a single-prompt case with one expected tool, one
\* successful call of it and judge scores of at least 4 in every dimension
\* gives passed true, tools_used with that one name and failed_tool_calls 0.
C24_EndToEndPass ==
    (Returned /\ OneExpectedCallSucceeded /\ JudgeScoresAtLeastFour) =>
        /\ result[1].passed
        /\ result[1].tools_used = <<"tool_a">>
        /\ result[1].failed_tool_calls = 0

\* The scenario ran to its result, the follow-up completion having answered.
C24_Witness ==
    /\ Returned
    /\ OneExpectedCallSucceeded
    /\ JudgeScoresAtLeastFour
    /\ messages[Len(messages)] = Message("assistant", AgentAnswer)

\* C25: evaluate_case routes by the kind of case: a single-prompt case
\* gives exactly one call of evaluate_mcp_server with (server_source,
\* prompt, model, expected_result, expected_tools) and none of the
\* trajectory evaluator; a case with turns gives exactly one call of
\* evaluate_mcp_server_trajectory with the server, all turns in order and
\* the model, and none of the single-prompt evaluator.
C25_RoutesByCaseType ==
    (entry = "evaluate_case" /\ pc # "evaluate_case") =>
        /\ Len(evaluator_calls) = 1
        /\ case.is_single_prompt =>
             /\ evaluator_calls[1].function = "evaluate_mcp_server"
             /\ evaluator_calls[1].args
                  = <<ServerSource, case.prompt, ModelName, ExpectedResult,
                      case.expected_tools>>
        /\ case.is_trajectory =>
             /\ evaluator_calls[1].function = "evaluate_mcp_server_trajectory"
             /\ Len(evaluator_calls[1].args) >= 3
             /\ SubSeq(evaluator_calls[1].args, 1, 3)
                  = <<ServerSource, case.turns, ModelName>>

\* A direct call of grade passed expected_tools and tools_used, and an
\* expected tool is not among the tools used.
GradeCalledWithMissingTool ==
    /\ entry = "grade"
    /\ "expected_tools" \in evaluator_calls[1].keywords
    /\ \E t \in SetOf(case.expected_tools) : t \notin SetOf(tools_used)

\* C26: grade invoked with expected_tools and tools_used where an expected
\* tool was not used returns a result with passed = false.
C26_MissingExpectedToolFails ==
    (pc = "done" /\ GradeCalledWithMissingTool) =>
        /\ result # <<>>
        /\ ~result[1].passed

\* Two results carry the same scores, average, verdict and comments, and
\* both or neither carry an error.
SameGrading(a, b) ==
    /\ \A k \in ScoreKeys : a[k] = b[k]
    /\ a.average_score = b.average_score
    /\ a.passed = b.passed
    /\ a.overall_comments = b.overall_comments
    /\ (a.error = <<>>) <=> (b.error = <<>>)

IsPrefix(a, b) == Len(a) <= Len(b) /\ SubSeq(b, 1, Len(a)) = a

\* C29: the message history and the tool-record list of one evaluation are
\* append-only: at every step of run_evals_trajectory the previous history
\* is a prefix of the new one, no message or record already appended is
\* changed or removed, and the same holds for tools_used.
C29_AppendOnly ==
    [][/\ IsPrefix(messages, messages')
       /\ IsPrefix(tool_call_details, tool_call_details')
       /\ IsPrefix(tools_used, tools_used')]_vars

\* A trajectory returned after a tool call was recorded, the arguments of
\* a second one failed to decode and the handler of the outer try appended
\* its message to a history of several messages.
C29_Witness ==
    /\ pc = "returned"
    /\ Len(tool_call_details) >= 1
    /\ Len(tools_used) >= 2
    /\ Len(messages) >= 5
    /\ ContainsText(messages[Len(messages)].content, ErrTrajectoryPrefix)

\* The judge returned a JSON document with the five scores in range.
JudgeParsed ==
    /\ judge_response # <<>>
    /\ judge_response[1].kind = "text"
    /\ ~JudgeNotJson
    /\ ~JudgeOtherFailure

\* C30: on a successful parse of the judge's JSON, grade and
\* grade_trajectory set passed to true exactly when average_score >= 3.0:
\* an average of exactly 3.0 passes, any average below 3.0 fails.
C30_PassedIffAverageAtLeastThree ==
    (Returned /\ entry \in {"grade", "grade_trajectory"} /\ JudgeParsed) =>
        /\ result[1].error = <<>>
        /\ result[1].passed <=> (result[1].average_score >= Fifths(3))
        /\ result[1].average_score = Fifths(3) => result[1].passed
        /\ result[1].average_score < Fifths(3) => ~result[1].passed

\* grade_trajectory passed scores that average exactly 3.0.
C30_Witness ==
    /\ Returned
    /\ entry = "grade_trajectory"
    /\ JudgeParsed
    /\ result[1].average_score = Fifths(3)
    /\ result[1].passed

\* The lists of two evaluations that have allocated theirs are different
\* lists.
OwnContainers ==
    \A i, j \in TaskIds :
        (i # j /\ tasks[i].refs # <<>> /\ tasks[j].refs # <<>>) =>
            \A c, d \in Containers : tasks[i].refs[c] # tasks[j].refs[d]

\* C28: two evaluations whose awaited steps are interleaved arbitrarily
\* share no mutable state: each allocates its own message history,
\* tools_used and tool_call_details, and the result of each is the result
\* it produces when it runs alone with the same collaborator responses.
C28_EvaluationsIsolated ==
    /\ OwnContainers
    /\ \A i \in TaskIds :
         tasks[i].pc = "done" =>
             /\ tasks[i].result # <<>>
             /\ tasks[i].result
                  = run_alone(initial_task(i, tasks[i].script), EmptyHeap)

\* Two evaluations finished, steps of each taken while the other was under
\* way, one of them with a recorded tool call.
C28_Witness ==
    /\ \A i \in TaskIds : tasks[i].pc = "done" /\ tasks[i].overlapped
    /\ tasks[1].result[1].tools_used = <<"tool_a">>
    /\ tasks[2].result[1].tools_used = <<"wrong_tool", "tool_a">>
    /\ tasks[1].result
         = run_alone(initial_task(1, tasks[1].script), EmptyHeap)

\* The user turns the loop has entered: those before turn_idx, and the one
\* at turn_idx once its completion was requested.
UserTurnsEntered ==
    {i \in 1..Len(Turns) :
        /\ Turns[i].role = "user"
        /\ \/ i < turn_idx
           \/ i = turn_idx /\ pc \notin {"list_tools", "turn"}}

\* The steps run_evals_trajectory can still take are at most this many.
StepsLeft ==
    LET width == MaxInvocations + 2
        turns_left == Len(Turns) + 1 - turn_idx
    IN  CASE pc = "list_tools" -> width * (Len(Turns) + 1) + 1
          [] pc = "turn" -> width * turns_left
          [] pc = "tools" -> width * (turns_left - 1) + Len(pending) + 1
          [] pc = "followup" -> width * (turns_left - 1) + 1
          [] OTHER -> 0

\* C31: run_evals_trajectory terminates for every finite turn list (every
\* step lowers a bound on the steps left) and makes at most two agent
\* completion calls per user turn, the second one only after tool calls
\* were requested; tool calls requested by the follow-up response are
\* never executed.
C31_BoundedCompletions ==
    /\ [](StepsLeft >= 0 /\ agent_calls <= 2 * Cardinality(UserTurnsEntered))
    /\ [][StepsLeft' < StepsLeft]_vars
    /\ [][pc = "followup" =>
            /\ agent_calls' = agent_calls + 1
            /\ pc' \in {"turn", "returned"}
            /\ turn_idx' = turn_idx + 1
            /\ pending' = <<>>
            /\ invocations' = invocations
            /\ tools_used' = tools_used
            /\ tool_call_details' = tool_call_details]_vars
    /\ [][pc' = "followup" => pc = "tools"]_vars

\* Two user turns, each with a tool call and a follow-up: four completions.
C31_Witness ==
    /\ pc = "returned"
    /\ Cardinality(UserTurnsEntered) = 2
    /\ agent_calls = 4
    /\ invocations = 2

\* The step ends the user turn at turn_idx: the loop moves to the next turn.
UserTurnEnds ==
    /\ pc \in {"turn", "followup"}
    /\ turn_idx <= Len(Turns)
    /\ Turns[turn_idx].role = "user"
    /\ turn_idx' = turn_idx + 1

\* The message is an answer of the agent: an assistant message that lists
\* no tool calls.
IsAnswer(message) ==
    message.role = "assistant" /\ "tool_calls" \notin DOMAIN message

\* C32: every user turn that is processed contributes an answer to the
\* history: after the turn the last message appended for it is an
\* assistant message holding the agent's text (the direct response, or the
\* follow-up answer after tool calls), also when that text is empty.
C32_EveryUserTurnAnswered ==
    [][UserTurnEnds =>
          /\ Len(messages') > Len(messages)
          /\ IsAnswer(messages'[Len(messages')])]_vars

\* C33: in every state of a trajectory each entry of tools_used has its
\* record: tools_used is never longer than tool_call_details, and the i-th
\* name of tools_used is the tool_name of the record appended for the same
\* invocation, also when the arguments of a tool call are no valid JSON.
C33_EveryUsedToolHasRecord ==
    /\ Len(tools_used) <= Len(tool_call_details)
    /\ \A i \in 1..Len(tools_used) :
         i <= Len(tool_call_details) =>
             tool_call_details[i].tool_name = tools_used[i]

IsToolCallsMessage(message) ==
    message.role = "assistant" /\ "tool_calls" \in DOMAIN message

\* The ids an assistant message lists in its tool_calls.
CallIdsOf(message) ==
    {message.tool_calls[i].id : i \in 1..Len(message.tool_calls)}

\* The tool messages that follow position j with nothing else in between.
ResponsesAfter(history, j) ==
    {k \in (j + 1)..Len(history) :
        \A m \in (j + 1)..k : history[m].role = "tool"}

\* Every tool message answers a call listed by the assistant message before
\* its run of tool messages.
ToolMessagesAnswerCalls(history) ==
    \A k \in 1..Len(history) :
        history[k].role = "tool" =>
            \E j \in 1..(k - 1) :
                /\ IsToolCallsMessage(history[j])
                /\ k \in ResponsesAfter(history, j)
                /\ history[k].tool_call_id \in CallIdsOf(history[j])

\* Every listed call id has exactly one tool message right after the
\* assistant message that lists it.
CallsAnsweredOnce(history) ==
    \A j \in 1..Len(history) :
        IsToolCallsMessage(history[j]) =>
            \A id \in CallIdsOf(history[j]) :
                Cardinality({k \in ResponsesAfter(history, j) :
                                history[k].tool_call_id = id}) = 1

\* C34: the returned history is a well-formed tool-calling transcript: it
\* begins with the system prompt, every tool message is preceded, with only
\* tool messages in between, by an assistant message whose tool_calls list
\* its tool_call_id, and every call id listed by an assistant message has
\* exactly one tool response after it before the next completion.
C34_WellFormedTranscript ==
    pc = "returned" =>
        /\ messages # <<>>
        /\ messages[1] = Message("system", SystemPrompt)
        /\ ToolMessagesAnswerCalls(messages)
        /\ CallsAnsweredOnce(messages)

\* The positions of the user messages of a history, in order.
RECURSIVE UserPositions(_, _)
UserPositions(history, k) ==
    IF k > Len(history) THEN <<>>
    ELSE (IF history[k].role = "user" THEN <<k>> ELSE <<>>)
         \o UserPositions(history, k + 1)

\* The positions of the assistant messages of the i-th turn: those after
\* the i-th user message and before the next one.
AnswersOfTurn(history, i) ==
    LET ups == UserPositions(history, 1)
        last == IF i < Len(ups) THEN ups[i + 1] - 1 ELSE Len(history)
    IN  {k \in (ups[i] + 1)..last : history[k].role = "assistant"}

Greatest(S) == CHOOSE k \in S : \A m \in S : m <= k

\* C35: in the judge prompt of grade_trajectory the conversation summary
\* pairs each user message with the assistant answer generated for the
\* same turn (Turn i: the i-th user message and the final answer to it),
\* also when the turn involved tool calls and so produced more than one
\* assistant message.
C35_SummaryPairsTurns ==
    (pc = "returned" /\ \A t \in 1..Len(Turns) : Turns[t].role = "user") =>
        LET summary == conversation_summary(messages)
            ups == UserPositions(messages, 1)
        IN  \A i \in 1..Len(summary) :
                /\ summary[i].user = messages[ups[i]].content
                /\ AnswersOfTurn(messages, i) # {} =>
                       summary[i].assistant
                         = messages[Greatest(AnswersOfTurn(messages, i))].content

AssistantPositions(history) ==
    {k \in 1..Len(history) : history[k].role = "assistant"}

\* evaluate_mcp_server called the judge for a single prompt.
SinglePromptJudged ==
    /\ entry = "evaluate_case"
    /\ Mode = "single"
    /\ pc = "done"
    /\ judge_request # <<>>

\* C36: in single-prompt evaluation the server_response handed to the judge
\* is always the content of the agent's last assistant message for the
\* prompt, never the content of a tool response or of the user or system
\* message, whatever the trajectory did (tool calls followed by an empty
\* follow-up answer included).
C36_JudgeSeesLastAssistantMessage ==
    SinglePromptJudged =>
        /\ AssistantPositions(messages) # {}
        /\ judge_request[1].server_response
             = messages[Greatest(AssistantPositions(messages))].content
        /\ messages[Len(messages)].role = "assistant"

\* The judge returned a JSON document that is no usable score object: a
\* score key is missing, or a score lies outside MinScore..MaxScore.
JudgeUnusableObject ==
    /\ judge_response # <<>>
    /\ judge_response[1].kind = "text"
    /\ JudgeOtherFailure

ScoresInRange(r) == \A k \in ScoreKeys : r[k] \in MinScore..MaxScore

\* C37: when the judge returns valid JSON that is no usable score object (a
\* score key is missing, or a score lies outside 0..5), grade and
\* grade_trajectory raise nothing and return the degraded result: all
\* sub-scores 1, average_score 1.0, overall_comments starting with
\* "Evaluation failed: " and the error field set; so every sub-score of
\* every returned result lies within 0..5.
C37_UnusableObjectDegrades ==
    (pc = "done" /\ entry \in {"grade", "grade_trajectory"}) =>
        /\ result # <<>> => ScoresInRange(result[1])
        /\ JudgeUnusableObject =>
             /\ raised = <<>>
             /\ result # <<>>
             /\ IsDegraded(result[1])
             /\ SubSeq(result[1].overall_comments, 1, 1) = <<"Evaluation failed: ">>
             /\ result[1].error # <<>>

\* grade was handed a JSON object with a score above the range.
C37_Witness ==
    /\ pc = "done"
    /\ entry = "grade"
    /\ JudgeUnusableObject
    /\ ScoreKeys \subseteq DOMAIN JudgeLines[1].value
    /\ JudgeLines[1].value.accuracy > MaxScore
    /\ result # <<>>
    /\ result[1].accuracy = 1
    /\ result[1].error = ValidationErrorText

\* The step is the break of a user turn whose completion raised.
AgentFailureStep ==
    /\ pc = "turn"
    /\ pc' = "returned"
    /\ turn_idx <= Len(Turns)
    /\ turn_idx' = turn_idx

\* The step is the handler of the outer try taking an exception.
TopLevelFailureStep == pc = "tools" /\ pc' = "returned"

\* C38: when a trajectory ends early (the completion of a later user turn
\* fails, or an exception is caught at the top level), everything earlier
\* turns recorded is returned unchanged: the history, the tools_used
\* entries and the records made before the failure are those of the run up
\* to the failure, with only the messages of the failing turn after them.
C38_EarlyEndKeepsRecords ==
    /\ [][AgentFailureStep =>
            /\ messages' = messages
                   \o <<Message("user", Turns[turn_idx].content),
                        Message("assistant", ErrTurnPrefix \o LlmError)>>
            /\ tools_used' = tools_used
            /\ tool_call_details' = tool_call_details]_vars
    /\ [][TopLevelFailureStep =>
            /\ Len(messages') = Len(messages) + 1
            /\ SubSeq(messages', 1, Len(messages)) = messages
            /\ ContainsText(messages'[Len(messages')].content, ErrTrajectoryPrefix)
            /\ tools_used' = Append(tools_used, Head(pending).function.name)
            /\ tool_call_details' = tool_call_details]_vars

\* The completion of the second user turn failed after the first turn had
\* recorded a tool call and its answer.
C38_Witness ==
    /\ pc = "returned"
    /\ turn_idx = 2
    /\ Len(Turns) = 2
    /\ Turns[2].role = "user"
    /\ messages[Len(messages)] = Message("assistant", ErrTurnPrefix \o LlmError)
    /\ Len(tool_call_details) = 1
    /\ tools_used = <<"tool_a">>
    /\ Len(messages) = 7

\* C39: run_evals returns "No tools available from the MCP server." and
\* requests no agent completion when the server advertises no tools;
\* otherwise it returns the content of the last assistant message of the
\* single-turn trajectory, or "No response generated" when the history
\* holds no assistant message.
C39_RunEvalsResponse ==
    (entry = "run_evals" /\ pc = "done" /\ raised = <<>>) =>
        /\ result # <<>>
        /\ IF advertised = {}
           THEN /\ result[1] = NoToolsText
                /\ agent_calls = 0
                /\ messages = <<>>
           ELSE IF AssistantPositions(messages) = {}
           THEN result[1] = NoResponseText
           ELSE result[1] = messages[Greatest(AssistantPositions(messages))].content

\* The follow-up answer was empty, the history ends with a tool response
\* and run_evals returned the empty content of the assistant message that
\* listed the tool calls.
C39_Witness ==
    /\ entry = "run_evals"
    /\ pc = "done"
    /\ raised = <<>>
    /\ messages # <<>>
    /\ messages[Len(messages)].role = "tool"
    /\ result = <<<<>>>>
    /\ agent_calls = 2

====
